---- MODULE Spec2Model ----
(***************************************************************************)
(* Evaluation scoring of the gateway: EvalService.get_eval_config_score_   *)
(* summary (the Score Aggregator) and EvalService.get_eval_configs_score_  *)
(* summary (the Correlation Comparator) of src/src/eval/eval_service.py.   *)
(*                                                                         *)
(* A call is modelled as the handler's control flow: the entry (lookups,   *)
(* the expected dataset ids, the local accumulators), one step per         *)
(* iteration of the loop over the eval runs, and the exit that builds the  *)
(* response.  The task, the evaluator and the eval runs come from the      *)
(* kiln_ai store, which the handlers only read: they are inputs, drawn     *)
(* from small sets at the entry and at every loop iteration.               *)
(*                                                                         *)
(* Python floats are modelled as exact rationals <<num, den>> in lowest    *)
(* terms; a dict is a function whose DOMAIN is the dict's key set.         *)
(***************************************************************************)
EXTENDS Integers, Sequences, FiniteSets, TLC

VARIABLES
    pc,                              \* position of the handler
    task_runs,                       \* task.runs(): id -> TaskRun
    task_runs_configs,               \* task.run_configs(): ids
    eval_configs,                    \* eval.configs(): ids
    output_scores,                   \* eval.output_scores: json keys
    score_key_to_task_requirement_id,
    expected_dataset_ids,
    remaining_expected_dataset_ids,  \* config id -> ids not yet counted
    partial_incomplete_counts,       \* run config id -> count
    total_scores,                    \* run config id -> key -> sum
    score_counts,                    \* run config id -> key -> count
    correlation_calculators,         \* eval config id -> key -> scores added
    eval_config,                     \* the eval config whose runs are read
    nread,                           \* eval runs read so far by this call
    seen,                            \* <<config id, dataset id>> of the runs read
    lacking,                         \* the expected pairs whose first run read
                                     \* lacked a declared output score
    repeated,                        \* the pairs read more than once
    reported,                        \* <<config id, key>>: a first run of the
                                     \* config for an expected item scored the
                                     \* declared key
    on_scenario,                     \* the runs read are a prefix of ScenarioRuns
    paired,                          \* <<eval config id, key, dataset id>>: the
                                     \* first run of the config for the expected
                                     \* item scored the declared key and the item
                                     \* has a human rating for it
    response,                        \* what the handler returned or raised
    store,                           \* what the kiln_ai store holds
    calls,                           \* the calls in progress over the store
    finetunes,                       \* task.finetunes(): the stored fine-tunes
    ft_pc,                           \* position of the FinetuneService handler
    ft_request,                      \* the request the handler is serving
    ft_idx,                          \* get_finetunes: fine-tunes passed so far
    status_calls,                    \* fine-tune id -> calls of its adapter's
                                     \* status() made by the current request
    create_and_start_calls,          \* calls of create_and_start so far
    ft_before,                       \* the fine-tunes and the number of
                                     \* create_and_start calls at the entry
    ft_response,                     \* what the handler returned or raised
    ft_ncalls,                       \* requests served so far
    fw_pc,                           \* position of fetch_fireworks_finetune_models
    params,                          \* the query of the next page request
    requests_sent,                   \* the queries sent so far, in order
    responses,                       \* the JSON bodies received so far, in order
    models,                          \* the model dicts collected from the pages
    tuneable_models,                 \* what the function returned or raised
    runner,                          \* eval_runner.run(): running, finished, raised
    progress_updates,                \* the Progress objects the runner yielded
    events,                          \* the events event_generator yielded
    stream_pc,                       \* position of event_generator
    job_files,                       \* jobs_dir: job id -> the job saved there
    services,                        \* the FineTuneService objects: their jobs,
                                     \* adapters and tasks
    create_and_start_count           \* job id -> calls of the provider's
                                     \* create_and_start for the job

vars == << pc, task_runs, task_runs_configs, eval_configs, output_scores,
           score_key_to_task_requirement_id, expected_dataset_ids,
           remaining_expected_dataset_ids, partial_incomplete_counts,
           total_scores, score_counts, correlation_calculators, eval_config,
           nread, seen, lacking, repeated, reported, on_scenario, paired,
           response, store, calls, finetunes, ft_pc, ft_request, ft_idx,
           status_calls, create_and_start_calls, ft_before, ft_response,
           ft_ncalls, fw_pc, params, requests_sent, responses, models,
           tuneable_models, runner, progress_updates, events, stream_pc,
           job_files, services, create_and_start_count >>

\* the state of the calls that run over a store
store_vars == << store, calls >>

\* the state of the FinetuneService handlers (finetune/v2)
finetune_vars ==
    << finetunes, ft_pc, ft_request, ft_idx, status_calls,
       create_and_start_calls, ft_before, ft_response, ft_ncalls >>

\* the state of fetch_fireworks_finetune_models (finetune/v2)
fireworks_vars ==
    << fw_pc, params, requests_sent, responses, models, tuneable_models >>

\* the state of the event stream of run_eval_runner_with_status
stream_vars == << runner, progress_updates, events, stream_pc >>

\* the state of the fine-tune jobs (finetune/v1)
jobs_vars == << job_files, services, create_and_start_count >>

\* the state of the services beside the evaluation handlers
service_vars == << finetune_vars, fireworks_vars, stream_vars, jobs_vars >>

\* the state of the single call of Spec
handler_vars ==
    << pc, task_runs, task_runs_configs, eval_configs, output_scores,
       score_key_to_task_requirement_id, expected_dataset_ids,
       remaining_expected_dataset_ids, partial_incomplete_counts,
       total_scores, score_counts, correlation_calculators, eval_config,
       nread, seen, lacking, repeated, reported, on_scenario, paired,
       response >>

(***************************************************************************)
(* Bounds and input domains                                                *)
(***************************************************************************)
MaxRuns == 3

None == "None"
DatasetIds == {"a", "b", "c"}
RunConfigIds == {"rc1", "rc2"}
EvalConfigIds == {"e1", "e2"}
RequirementIds == {"r1"}
ScoreKeys == {"acc", "overall_rating"}
ScoreValues == {1, 2}
EvalSetTag == "eval_set"
GoldenTag == "golden"

Empty == << >>

\* every dict with keys among K and values in V
Dicts(K, V) == UNION { [D -> V] : D \in SUBSET K }

RECURSIVE Gcd(_, _)
Gcd(a, b) == IF b = 0 THEN a ELSE Gcd(b, a % b)

\* a / b of two non-negative integers, b > 0, as a rational in lowest terms
Div(a, b) == LET g == Gcd(a, b) IN << a \div g, b \div g >>

\* 1 - q
OneMinus(q) == << q[2] - q[1], q[2] >>

(***************************************************************************)
(* Inputs: what the store can hold                                         *)
(***************************************************************************)
\* the scores of an eval run: any subset of the keys; "acc" takes every
\* value, "overall_rating" the value 2
ScoreDicts ==
    { d \in Dicts(ScoreKeys, ScoreValues) :
        "overall_rating" \in DOMAIN d => d["overall_rating"] = 2 }

\* an EvalRun: the run config it was made for (None: made for an eval config
\* comparison), the dataset item it scored, its scores
EvalRuns == [ task_run_config_id : RunConfigIds \cup {None},
              dataset_id : DatasetIds,
              scores : ScoreDicts ]

\* An optional float is << >> (None) or << v >>.
\* The human rating of a TaskRun's output: rated tells whether output.rating
\* is set, value is the optional overall rating, requirement_ratings maps
\* task requirement ids to values.
NoRating == [rated |-> FALSE, value |-> Empty, requirement_ratings |-> Empty]

Ratings ==
    { NoRating,
      [rated |-> TRUE, value |-> << 1 >>, requirement_ratings |-> Empty],
      [rated |-> TRUE, value |-> Empty, requirement_ratings |-> ("r1" :> 2)],
      [rated |-> TRUE, value |-> << 2 >>, requirement_ratings |-> ("r1" :> 1)] }

\* The handlers compare ids and keys only for equality, so one set of each
\* size stands for all of that size.
TaggedSets == { {}, {"a"}, {"a", "b"}, {"a", "b", "c"} }
RunConfigSets == { {}, {"rc1"}, {"rc1", "rc2"} }
OutputScoreSets == { {}, {"acc"}, {"acc", "overall_rating"} }

\* the task's runs as the Score Aggregator reads them: ids and tags only
TaggedRuns(tagged) ==
    [ id \in DatasetIds |->
        [ tags |-> IF id \in tagged THEN {EvalSetTag} ELSE {},
          rating |-> NoRating ] ]

(***************************************************************************)
(* Score Aggregator: EvalService.get_eval_config_score_summary             *)
(***************************************************************************)
\* mutant: the filter is not applied
dataset_ids_ignoring_filter(runs, filter_id) == DOMAIN runs

\* the ids of the task runs a tag filter accepts
dataset_ids_in_filter(runs, filter_id) ==
    { id \in DOMAIN runs : filter_id \in runs[id].tags }

\* mutant: a dataset id already counted is counted again
ShouldCountDuplicates(remaining, run) ==
    /\ run.task_run_config_id # None
    /\ run.task_run_config_id \in DOMAIN remaining
    /\ run.dataset_id \in expected_dataset_ids

\* mutant: a run config that is not one of the task's is counted
ShouldCountAnyRunConfig(remaining, run) ==
    /\ run.task_run_config_id # None
    /\ run.task_run_config_id \in DOMAIN remaining
           => run.dataset_id \in remaining[run.task_run_config_id]
    /\ run.dataset_id \in expected_dataset_ids

\* the three `continue` guards of the loop, negated: the run is counted
ShouldCount(remaining, run) ==
    /\ run.task_run_config_id # None
    /\ run.task_run_config_id \in DOMAIN remaining
    /\ run.dataset_id \in remaining[run.task_run_config_id]

\* mutant: the id is not removed
RemoveNothing(remaining, id, dataset_id) == remaining

\* remaining_expected_dataset_ids[run_config_id].remove(eval_run.dataset_id)
RemoveRemaining(remaining, id, dataset_id) ==
    [remaining EXCEPT ![id] = @ \ {dataset_id}]

\* mutant: the score replaces the sum (= where the code has +=)
AddTotalsLastScore(totals, rc, scores, outs) ==
    IF outs = {} THEN totals
    ELSE LET old == IF rc \in DOMAIN totals THEN totals[rc] ELSE Empty
             new == [ k \in (DOMAIN old) \cup outs |->
                        IF k \in outs /\ k \in DOMAIN scores THEN scores[k]
                        ELSE IF k \in DOMAIN old THEN old[k] ELSE 0 ]
         IN (rc :> new) @@ totals

\* the inner loop's effect on total_scores: every declared key gets an entry,
\* a key the run scored has its score added
AddTotals(totals, rc, scores, outs) ==
    IF outs = {} THEN totals
    ELSE LET old == IF rc \in DOMAIN totals THEN totals[rc] ELSE Empty
             new == [ k \in (DOMAIN old) \cup outs |->
                        (IF k \in DOMAIN old THEN old[k] ELSE 0)
                        + (IF k \in outs /\ k \in DOMAIN scores
                              THEN scores[k] ELSE 0) ]
         IN (rc :> new) @@ totals

\* mutant: a counted run counts for every declared key, scored or not
AddCountsEveryKey(counts, rc, scores, outs) ==
    IF outs = {} THEN counts
    ELSE LET old == IF rc \in DOMAIN counts THEN counts[rc] ELSE Empty
             new == [ k \in (DOMAIN old) \cup outs |->
                        (IF k \in DOMAIN old THEN old[k] ELSE 0) + 1 ]
         IN (rc :> new) @@ counts

\* the inner loop's effect on score_counts
AddCounts(counts, rc, scores, outs) ==
    IF outs = {} THEN counts
    ELSE LET old == IF rc \in DOMAIN counts THEN counts[rc] ELSE Empty
             new == [ k \in (DOMAIN old) \cup outs |->
                        (IF k \in DOMAIN old THEN old[k] ELSE 0)
                        + (IF k \in outs /\ k \in DOMAIN scores
                              THEN 1 ELSE 0) ]
         IN (rc :> new) @@ counts

\* the flag `incomplete` after the inner loop
Incomplete(scores, outs) == \E k \in outs : k \notin DOMAIN scores

\* mutant: a key without a value is reported as 0
ScoreSummariesZeroFilled(totals, counts) ==
    [ rc \in DOMAIN totals |->
        [ k \in DOMAIN totals[rc] |->
            [mean_score |-> IF counts[rc][k] > 0
                            THEN Div(totals[rc][k], counts[rc][k])
                            ELSE << 0, 1 >>] ] ]

\* lines 390-426, the body of the loop over eval_config.runs(): the
\* accumulators after the iteration that reads `run`
ProcessEvalRun(acc, run, outs) ==
    IF ShouldCount(acc.remaining, run)
    THEN LET rc == run.task_run_config_id
         IN [ remaining |-> RemoveRemaining(acc.remaining, rc, run.dataset_id),
              totals |-> AddTotals(acc.totals, rc, run.scores, outs),
              counts |-> AddCounts(acc.counts, rc, run.scores, outs),
              partial |-> IF Incomplete(run.scores, outs)
                          THEN [acc.partial EXCEPT ![rc] = @ + 1]
                          ELSE acc.partial ]
    ELSE acc

\* "Convert to score summaries"
ScoreSummaries(totals, counts) ==
    [ rc \in DOMAIN totals |->
        LET keys == { k \in DOMAIN totals[rc] : counts[rc][k] > 0 }
        IN [ k \in keys |-> [mean_score |-> Div(totals[rc][k], counts[rc][k])] ] ]

\* mutant: runs with missing scores count as complete
RunConfigPercentSeen(rcs, partial, remaining, expected) ==
    [ rc \in rcs |->
        OneMinus(Div(Cardinality(remaining[rc]), Cardinality(expected))) ]

\* "Calculate the percent of the dataset that has been processed"
RunConfigPercentComplete(rcs, partial, remaining, expected) ==
    [ rc \in rcs |->
        LET incomplete_count == partial[rc] + Cardinality(remaining[rc])
            percent_incomplete == Div(incomplete_count, Cardinality(expected))
        IN OneMinus(percent_incomplete) ]

EvalResultSummary(rcs, acc, expected) ==
    [ status_code |-> 200,
      results |-> ScoreSummaries(acc.totals, acc.counts),
      run_config_percent_complete |->
          RunConfigPercentComplete(rcs, acc.partial, acc.remaining, expected),
      dataset_size |-> Cardinality(expected) ]

\* the local accumulators of the call
Accumulators ==
    [ remaining |-> remaining_expected_dataset_ids,
      totals |-> total_scores,
      counts |-> score_counts,
      partial |-> partial_incomplete_counts ]

EmptyDatasetError ==
    [ status_code |-> 400, detail |-> "No dataset ids in eval set filter" ]

NoResponse == [ status_code |-> 0 ]

\* the runs of the scenario of the specification's section 8
ScenarioRuns ==
    << [task_run_config_id |-> "rc1", dataset_id |-> "a", scores |-> ("acc" :> 1)],
       [task_run_config_id |-> "rc1", dataset_id |-> "a", scores |-> ("acc" :> 1)],
       [task_run_config_id |-> "rc1", dataset_id |-> "b", scores |-> Empty] >>

OnScenario(n, run) == n <= Len(ScenarioRuns) /\ run = ScenarioRuns[n]

\* the record of the stream read so far
\* (history only: no handler reads it).  `expected` tells whether the run's
\* config is one of the call and its dataset item is in the call's filter.
SeenGhost(pair) ==
    /\ seen' = seen \cup {pair}
    /\ repeated' = IF pair \in seen THEN repeated \cup {pair} ELSE repeated

ReadGhost(pair, scores, expected) ==
    /\ SeenGhost(pair)
    /\ lacking' = IF pair \notin seen /\ expected
                       /\ output_scores \ DOMAIN scores # {}
                  THEN lacking \cup {pair} ELSE lacking
    /\ reported' = IF pair \notin seen /\ expected
                   THEN reported \cup { << pair[1], k >> :
                                          k \in output_scores \cap DOMAIN scores }
                   ELSE reported

\* the dataset item carries the tag of the evaluator's eval set filter
MatchesEvalSet(id) == id \in DOMAIN task_runs /\ EvalSetTag \in task_runs[id].tags

\* mutant: the empty set is not checked for
NeverNoDatasetIds(expected) == FALSE

\* line 371: len(expected_dataset_ids) == 0
NoDatasetIds(expected) == Cardinality(expected) = 0

\* lines 364-388: the lookups, the expected ids, the accumulators
AggEnter ==
    /\ pc = "idle"
    /\ \E tagged \in TaggedSets, rcs \in RunConfigSets, outs \in OutputScoreSets :
         LET runs == TaggedRuns(tagged)
             expected == dataset_ids_in_filter(runs, EvalSetTag)
         IN /\ task_runs' = runs
            /\ task_runs_configs' = rcs
            /\ output_scores' = outs
            /\ expected_dataset_ids' = expected
            /\ IF NoDatasetIds(expected)
               THEN /\ pc' = "raised"
                    /\ response' = EmptyDatasetError
                    /\ UNCHANGED << remaining_expected_dataset_ids,
                                    partial_incomplete_counts >>
               ELSE /\ pc' = "agg_loop"
                    /\ response' = response
                    /\ remaining_expected_dataset_ids' = [rc \in rcs |-> expected]
                    /\ partial_incomplete_counts' = [rc \in rcs |-> 0]
    /\ total_scores' = Empty
    /\ score_counts' = Empty
    /\ UNCHANGED << eval_configs, score_key_to_task_requirement_id,
                    correlation_calculators, eval_config, nread,
                    seen, lacking, repeated, reported, on_scenario >>
    /\ UNCHANGED << paired, store_vars, service_vars >>

\* lines 390-426: one iteration of the loop over eval_config.runs()
AggReadRun(run) ==
    /\ pc = "agg_loop"
    /\ nread < MaxRuns
    /\ nread' = nread + 1
    /\ ReadGhost(<< run.task_run_config_id, run.dataset_id >>, run.scores,
                 run.task_run_config_id \in task_runs_configs
                     /\ MatchesEvalSet(run.dataset_id))
    /\ on_scenario' = (on_scenario /\ OnScenario(nread + 1, run))
    /\ LET acc == ProcessEvalRun(Accumulators, run, output_scores)
       IN /\ remaining_expected_dataset_ids' = acc.remaining
          /\ total_scores' = acc.totals
          /\ score_counts' = acc.counts
          /\ partial_incomplete_counts' = acc.partial
    /\ UNCHANGED << pc, task_runs, task_runs_configs, eval_configs,
                    output_scores, score_key_to_task_requirement_id,
                    expected_dataset_ids, correlation_calculators,
                    eval_config, response >>
    /\ UNCHANGED << paired, store_vars, service_vars >>

AggLoop == \E run \in EvalRuns : AggReadRun(run)

\* lines 428-453: the runs are exhausted, the summary is returned
AggReturn ==
    /\ pc = "agg_loop"
    /\ pc' = "agg_done"
    /\ response' = EvalResultSummary(task_runs_configs, Accumulators,
                                     expected_dataset_ids)
    /\ UNCHANGED << task_runs, task_runs_configs, eval_configs, output_scores,
                    score_key_to_task_requirement_id, expected_dataset_ids,
                    remaining_expected_dataset_ids, partial_incomplete_counts,
                    total_scores, score_counts, correlation_calculators,
                    eval_config, nread, seen, lacking, repeated, reported, on_scenario >>
    /\ UNCHANGED << paired, store_vars, service_vars >>

(***************************************************************************)
(* Correlation Comparator: EvalService.get_eval_configs_score_summary      *)
(***************************************************************************)
\* the task's runs as the Correlation Comparator reads them: the items with
\* the tag of the eval configs filter, and their human ratings
GoldenSets == { {}, {"a"}, {"a", "b"} }

GoldenRuns(tagged, rating) ==
    [ id \in DatasetIds |->
        [ tags |-> IF id \in tagged THEN {GoldenTag} ELSE {},
          rating |-> IF id \in tagged THEN rating[id] ELSE NoRating ] ]

\* the eval runs of an eval config: made for the comparison (no run config)
\* or for a run config
ComparedRuns ==
    { run \in EvalRuns : run.task_run_config_id \in {None, "rc1"} }

\* eval.configs() is a list; the handler compares the ids only for equality
EvalConfigLists == { << >>, << "e1" >>, << "e1", "e2" >> }

\* lines 463-467 over task.requirements: no requirement, or the requirement
\* r1 whose name has the json key "acc"
RequirementMaps == { Empty, ("acc" :> "r1") }

\* mutant: "overall_rating" is looked up among the requirement ratings
human_score_by_requirement(task_run, score_key, key_to_requirement) ==
    IF ~task_run.rating.rated THEN Empty
    ELSE IF score_key \notin DOMAIN key_to_requirement THEN Empty
    ELSE LET req_id == key_to_requirement[score_key]
         IN IF req_id \in DOMAIN task_run.rating.requirement_ratings
            THEN << task_run.rating.requirement_ratings[req_id] >>
            ELSE Empty

human_score_from_task_run(task_run, score_key, key_to_requirement) ==
    IF ~task_run.rating.rated THEN Empty
    ELSE IF score_key = "overall_rating" THEN task_run.rating.value
    ELSE IF score_key \notin DOMAIN key_to_requirement THEN Empty
    ELSE LET req_id == key_to_requirement[score_key]
         IN IF req_id \in DOMAIN task_run.rating.requirement_ratings
            THEN << task_run.rating.requirement_ratings[req_id] >>
            ELSE Empty

\* mutant: has_all_scores is tested without has_any_scores
count_human_evals_without_elif(items, outs, key_to_requirement) ==
    LET rated(item) == { k \in outs :
            human_score_from_task_run(item, k, key_to_requirement) # Empty }
        ids == DOMAIN items
    IN << Cardinality({ d \in ids : rated(items[d]) = outs }),
          Cardinality({ d \in ids : rated(items[d]) # {}
                                      /\ rated(items[d]) # outs }),
          Cardinality({ d \in ids : rated(items[d]) = {} }) >>

\* mutant: an item with any human rating counts as fully rated
count_human_evals_any_is_all(items, outs, key_to_requirement) ==
    LET rated(item) == { k \in outs :
            human_score_from_task_run(item, k, key_to_requirement) # Empty }
        ids == DOMAIN items
    IN << Cardinality({ d \in ids : rated(items[d]) # {} }),
          0,
          Cardinality({ d \in ids : rated(items[d]) = {} }) >>

\* count_human_evals: << fully rated, partially rated, not rated >>
count_human_evals(items, outs, key_to_requirement) ==
    LET rated(item) == { k \in outs :
            human_score_from_task_run(item, k, key_to_requirement) # Empty }
        has_any_scores(item) == rated(item) # {}
        has_all_scores(item) == rated(item) = outs
        ids == DOMAIN items
    IN << Cardinality({ d \in ids : has_any_scores(items[d])
                                      /\ has_all_scores(items[d]) }),
          Cardinality({ d \in ids : has_any_scores(items[d])
                                      /\ ~has_all_scores(items[d]) }),
          Cardinality({ d \in ids : ~has_any_scores(items[d]) }) >>

\* lines 472: {run.id: run for run in task.runs() if filter(run)}
expected_dataset_items(runs, filter_id) ==
    [ id \in dataset_ids_in_filter(runs, filter_id) |-> runs[id] ]

\* mutant: a dataset id already processed is processed again
ShouldProcessDuplicates(items, remaining, ec, run) ==
    run.dataset_id \in DOMAIN items

\* mutant: a run made for a run config is left to the Score Aggregator
ShouldProcessComparisonRuns(items, remaining, ec, run) ==
    /\ run.task_run_config_id = None
    /\ run.dataset_id \in DOMAIN items
    /\ run.dataset_id \in remaining[ec]

\* the two `continue` guards at the head of the inner loop, negated
ShouldProcess(items, remaining, ec, run) ==
    /\ run.dataset_id \in DOMAIN items
    /\ run.dataset_id \in remaining[ec]

\* mutant: a pair is added for every key the run scored, with 0 standing for
\* a missing human rating
AddScoresWithoutHuman(calculators, ec, run, dataset_item, outs, key_to_requirement) ==
    LET paired_keys == outs \cap DOMAIN run.scores
        human(k) == human_score_from_task_run(dataset_item, k, key_to_requirement)
        old == IF ec \in DOMAIN calculators THEN calculators[ec] ELSE Empty
        new == [ k \in (DOMAIN old) \cup paired_keys |->
                   IF k \in paired_keys
                   THEN Append(IF k \in DOMAIN old THEN old[k] ELSE << >>,
                               [ measured_score |-> run.scores[k],
                                 human_score |->
                                     IF human(k) = Empty THEN 0 ELSE human(k)[1] ])
                   ELSE old[k] ]
    IN IF paired_keys = {} THEN calculators ELSE (ec :> new) @@ calculators

\* lines 512-548: the calculators after the scores of `run`, a run of eval
\* config ec on dataset_item, are added
AddScores(calculators, ec, run, dataset_item, outs, key_to_requirement) ==
    LET paired_keys == { k \in outs :
                      /\ k \in DOMAIN run.scores
                      /\ human_score_from_task_run(dataset_item, k,
                                                   key_to_requirement) # Empty }
        old == IF ec \in DOMAIN calculators THEN calculators[ec] ELSE Empty
        new == [ k \in (DOMAIN old) \cup paired_keys |->
                   IF k \in paired_keys
                   THEN Append(IF k \in DOMAIN old THEN old[k] ELSE << >>,
                               [ measured_score |-> run.scores[k],
                                 human_score |->
                                     human_score_from_task_run(
                                         dataset_item, k, key_to_requirement)[1] ])
                   ELSE old[k] ]
    IN IF paired_keys = {} THEN calculators ELSE (ec :> new) @@ calculators

\* lines 493-548, the body of the inner loop: the remaining sets and the
\* calculators after the iteration that reads `run` of eval config ec
ProcessConfigRun(acc, ec, run, items, outs, key_to_requirement) ==
    IF ShouldProcess(items, acc.remaining, ec, run)
    THEN [ remaining |-> RemoveRemaining(acc.remaining, ec, run.dataset_id),
           calculators |-> AddScores(acc.calculators, ec, run,
                                     items[run.dataset_id], outs,
                                     key_to_requirement) ]
    ELSE acc

\* mutant: a coefficient is reported for any pair at all
calculate_correlation_unguarded(scores) ==
    [ pair_count |-> Len(scores), undefined |-> Len(scores) < 1 ]

\* CorrelationCalculator.calculate_correlation: the number of pairs, and
\* whether the coefficient is undefined (fewer than 2 pairs, or no variance)
calculate_correlation(scores) ==
    [ pair_count |-> Len(scores),
      undefined |->
          \/ Len(scores) < 2
          \/ \A i, j \in 1..Len(scores) :
                scores[i].measured_score = scores[j].measured_score
          \/ \A i, j \in 1..Len(scores) :
                scores[i].human_score = scores[j].human_score ]

\* mutant: every score key gets a result, with or without pairs
CorrelationResultsZeroFilled(calculators) ==
    [ ec \in DOMAIN calculators |->
        [ k \in ScoreKeys |->
            calculate_correlation(IF k \in DOMAIN calculators[ec]
                                  THEN calculators[ec][k] ELSE << >>) ] ]

\* "Convert to score summaries"
CorrelationResults(calculators) ==
    [ ec \in DOMAIN calculators |->
        [ k \in DOMAIN calculators[ec] |->
            calculate_correlation(calculators[ec][k]) ] ]

\* mutant: the fraction that remains is reported
EvalConfigPercentIncomplete(ecs, remaining, expected) ==
    [ ec \in ecs |-> Div(Cardinality(remaining[ec]), Cardinality(expected)) ]

\* lines 565-570
EvalConfigPercentComplete(ecs, remaining, expected) ==
    [ ec \in ecs |->
        LET incomplete_count == Cardinality(remaining[ec])
            percent_incomplete == Div(incomplete_count, Cardinality(expected))
        IN OneMinus(percent_incomplete) ]

\* lines 475-482
EmptyCompareSummary ==
    [ status_code |-> 200,
      results |-> Empty,
      eval_config_percent_complete |-> Empty,
      dataset_size |-> 0,
      fully_rated_count |-> 0,
      partially_rated_count |-> 0,
      not_rated_count |-> 0 ]

\* mutant: the empty set goes through the general path
NeverNoExpectedItems(expected) == FALSE

\* line 474: len(expected_dataset_ids) == 0
NoExpectedItems(expected) == Cardinality(expected) = 0

\* lines 550-586
EvalConfigCompareSummary(ecs, acc, items, outs, key_to_requirement) ==
    LET census == count_human_evals(items, outs, key_to_requirement)
    IN [ status_code |-> 200,
         results |-> CorrelationResults(acc.calculators),
         eval_config_percent_complete |->
             EvalConfigPercentComplete(ecs, acc.remaining, DOMAIN items),
         dataset_size |-> Cardinality(DOMAIN items),
         fully_rated_count |-> census[1],
         partially_rated_count |-> census[2],
         not_rated_count |-> census[3] ]

Range(seq) == { seq[i] : i \in 1..Len(seq) }

\* the position of the outer loop in eval_configs (0: before the first)
Position(ecs, ec) ==
    IF ec = None THEN 0 ELSE CHOOSE i \in 1..Len(ecs) : ecs[i] = ec

CmpAccumulators ==
    [ remaining |-> remaining_expected_dataset_ids,
      calculators |-> correlation_calculators ]

\* lines 459-490: the lookups, the expected items, the accumulators
CmpEnter ==
    /\ pc = "idle"
    /\ \E tagged \in GoldenSets, ecs \in EvalConfigLists,
          outs \in OutputScoreSets, reqs \in RequirementMaps :
         \E rating \in [tagged -> Ratings] :
            LET runs == GoldenRuns(tagged, rating)
                items == expected_dataset_items(runs, GoldenTag)
            IN /\ task_runs' = runs
               /\ eval_configs' = ecs
               /\ output_scores' = outs
               /\ score_key_to_task_requirement_id' = reqs
               /\ expected_dataset_ids' = DOMAIN items
               /\ IF NoExpectedItems(DOMAIN items)
                  THEN /\ pc' = "cmp_done"
                       /\ response' = EmptyCompareSummary
                       /\ UNCHANGED remaining_expected_dataset_ids
                  ELSE /\ pc' = "cmp_loop"
                       /\ response' = response
                       /\ remaining_expected_dataset_ids' =
                              [ ec \in Range(ecs) |-> DOMAIN items ]
    /\ correlation_calculators' = Empty
    /\ UNCHANGED << task_runs_configs, partial_incomplete_counts, total_scores,
                    score_counts, eval_config, nread, seen, lacking, repeated,
                    reported, on_scenario >>
    /\ UNCHANGED << paired, store_vars, service_vars >>

\* line 492: the outer loop moves to the next eval config
CmpNextConfig ==
    /\ pc = "cmp_loop"
    /\ Position(eval_configs, eval_config) < Len(eval_configs)
    /\ eval_config' = eval_configs[Position(eval_configs, eval_config) + 1]
    /\ UNCHANGED << pc, task_runs, task_runs_configs, eval_configs,
                    output_scores, score_key_to_task_requirement_id,
                    expected_dataset_ids, remaining_expected_dataset_ids,
                    partial_incomplete_counts, total_scores, score_counts,
                    correlation_calculators, nread, seen, lacking, repeated,
                    reported, on_scenario, response >>
    /\ UNCHANGED << paired, store_vars, service_vars >>

\* the item has a human rating for the key: its output is rated and, for
\* "overall_rating", the rating has a value; for another key, the key is the
\* json key of a task requirement that the rating rates
HasHumanRating(task_run, k, key_to_requirement) ==
    /\ task_run.rating.rated
    /\ k = "overall_rating" => task_run.rating.value # Empty
    /\ k # "overall_rating" =>
          /\ k \in DOMAIN key_to_requirement
          /\ key_to_requirement[k] \in DOMAIN task_run.rating.requirement_ratings

\* paired after the run is read under eval config ec
PairedGhost(ec, run) ==
    paired' =
      IF /\ run.dataset_id \in expected_dataset_ids
         /\ << ec, run.dataset_id >> \notin seen
      THEN paired \cup
             { << ec, k, run.dataset_id >> :
                 k \in { j \in output_scores \cap DOMAIN run.scores :
                           HasHumanRating(task_runs[run.dataset_id], j,
                                          score_key_to_task_requirement_id) } }
      ELSE paired

\* lines 493-548: one iteration of the loop over eval_config.runs()
CmpReadRun(run) ==
    /\ pc = "cmp_loop"
    /\ eval_config # None
    /\ nread < MaxRuns
    /\ nread' = nread + 1
    /\ SeenGhost(<< eval_config, run.dataset_id >>)
    /\ PairedGhost(eval_config, run)
    /\ LET acc == ProcessConfigRun(CmpAccumulators, eval_config, run,
                                   expected_dataset_items(task_runs, GoldenTag),
                                   output_scores,
                                   score_key_to_task_requirement_id)
       IN /\ remaining_expected_dataset_ids' = acc.remaining
          /\ correlation_calculators' = acc.calculators
    /\ UNCHANGED << pc, task_runs, task_runs_configs, eval_configs,
                    output_scores, score_key_to_task_requirement_id,
                    expected_dataset_ids, partial_incomplete_counts,
                    total_scores, score_counts, eval_config, lacking, reported,
                    on_scenario, response >>
    /\ UNCHANGED << store_vars, service_vars >>

CmpLoop == \E run \in ComparedRuns : CmpReadRun(run)

\* lines 550-586: every eval config's runs are exhausted
CmpReturn ==
    /\ pc = "cmp_loop"
    /\ Position(eval_configs, eval_config) = Len(eval_configs)
    /\ pc' = "cmp_done"
    /\ response' = EvalConfigCompareSummary(
                       Range(eval_configs), CmpAccumulators,
                       expected_dataset_items(task_runs, GoldenTag),
                       output_scores, score_key_to_task_requirement_id)
    /\ UNCHANGED << task_runs, task_runs_configs, eval_configs, output_scores,
                    score_key_to_task_requirement_id, expected_dataset_ids,
                    remaining_expected_dataset_ids, partial_incomplete_counts,
                    total_scores, score_counts, correlation_calculators,
                    eval_config, nread, seen, lacking, repeated, reported,
                    on_scenario >>
    /\ UNCHANGED << paired, store_vars, service_vars >>

\* no call of the handlers is in progress
HandlerIdle ==
    /\ pc = "idle"
    /\ task_runs = Empty
    /\ task_runs_configs = {}
    /\ eval_configs = << >>
    /\ output_scores = {}
    /\ score_key_to_task_requirement_id = Empty
    /\ expected_dataset_ids = {}
    /\ remaining_expected_dataset_ids = Empty
    /\ partial_incomplete_counts = Empty
    /\ total_scores = Empty
    /\ score_counts = Empty
    /\ correlation_calculators = Empty
    /\ eval_config = None
    /\ nread = 0
    /\ seen = {}
    /\ lacking = {}
    /\ reported = {}
    /\ repeated = {}
    /\ on_scenario = TRUE
    /\ paired = {}
    /\ response = NoResponse

\* no handler of the fine-tune services is in progress
FinetuneIdle ==
    /\ finetunes = << >>
    /\ ft_pc = "idle"
    /\ ft_request = [ kind |-> "none" ]
    /\ ft_idx = 0
    /\ status_calls = Empty
    /\ create_and_start_calls = 0
    /\ ft_before = [ finetunes |-> << >>, create_and_start_calls |-> 0 ]
    /\ ft_response = NoResponse
    /\ ft_ncalls = 0

\* fetch_fireworks_finetune_models is not running
FireworksIdle ==
    /\ fw_pc = "idle"
    /\ params = [ pageSize |-> 0, pageToken |-> None ]
    /\ requests_sent = << >>
    /\ responses = << >>
    /\ models = << >>
    /\ tuneable_models = [ raised |-> "", models |-> << >> ]

\* no event stream is open
StreamIdle ==
    /\ runner = "idle"
    /\ progress_updates = << >>
    /\ events = << >>
    /\ stream_pc = "idle"

\* no FineTuneService exists and jobs_dir is empty
JobsIdle ==
    /\ job_files = Empty
    /\ services = Empty
    /\ create_and_start_count = Empty

ServicesIdle ==
    /\ FinetuneIdle
    /\ FireworksIdle
    /\ StreamIdle
    /\ JobsIdle

Init ==
    /\ HandlerIdle
    /\ store = Empty
    /\ calls = Empty
    /\ ServicesIdle

Next ==
    \/ AggEnter
    \/ AggLoop
    \/ AggReturn
    \/ CmpEnter
    \/ CmpNextConfig
    \/ CmpLoop
    \/ CmpReturn

Spec == Init /\ [][Next]_vars

(***************************************************************************)
(* Properties of the Score Aggregator.  A property of "the run read next"  *)
(* is stated in every state of the loop from which a run is read, for      *)
(* every run the store can hold: AggReadRun(run) sets the accumulators to  *)
(* ProcessEvalRun of them.                                                 *)
(***************************************************************************)
InAggregator == pc \in {"agg_loop", "agg_done"}

\* AggLoop is enabled
AggReading == pc = "agg_loop" /\ nread < MaxRuns

\* CmpLoop is enabled
CmpReading == pc = "cmp_loop" /\ eval_config # None /\ nread < MaxRuns

\* the accumulators after `run` is read in this state
After(run) == ProcessEvalRun(Accumulators, run, output_scores)

\* the summary the handler returns if the stream ends with these accumulators
SummaryOf(acc) == EvalResultSummary(task_runs_configs, acc, expected_dataset_ids)

PairOf(run) == << run.task_run_config_id, run.dataset_id >>

\* the run is the first one read for its pair, for a run config of the task
\* and a dataset item of the eval set
FirstExpected(run) ==
    /\ run.task_run_config_id \in task_runs_configs
    /\ MatchesEvalSet(run.dataset_id)
    /\ PairOf(run) \notin seen

Total(acc, rc, k) ==
    IF rc \in DOMAIN acc.totals /\ k \in DOMAIN acc.totals[rc]
    THEN acc.totals[rc][k] ELSE 0

Count(acc, rc, k) ==
    IF rc \in DOMAIN acc.counts /\ k \in DOMAIN acc.counts[rc]
    THEN acc.counts[rc][k] ELSE 0

IsFraction(q) == 0 <= q[1] /\ q[1] <= q[2] /\ q[2] > 0

\* C1: reading a second run with the (task_run_config_id, dataset_id) of an
\* earlier run changes no sum, count, incomplete count or remaining set, and so
\* no output, whatever scores the second run carries.
C1_NoDoubleCounting ==
    AggReading =>
      \A run \in EvalRuns :
         PairOf(run) \in seen =>
           /\ After(run) = Accumulators
           /\ SummaryOf(After(run)) = SummaryOf(Accumulators)

C1_Witness ==
    /\ pc = "agg_done"
    /\ \E p \in repeated :
         /\ p[1] \in DOMAIN response.results
         /\ p[2] \in expected_dataset_ids
         /\ response.results[p[1]] # Empty

\* C2: the percent complete returned for a run config is
\* 1 - (incomplete_count + missing_count) / dataset_size, with missing_count
\* the expected ids never read for the run config and incomplete_count the
\* counted runs lacking a declared score; and the scenario of section 8.
C2_PercentComplete ==
    pc = "agg_done" =>
      /\ DOMAIN response.run_config_percent_complete = task_runs_configs
      /\ \A rc \in task_runs_configs :
           LET expected == { d \in DatasetIds : MatchesEvalSet(d) }
               missing_count ==
                   Cardinality({ d \in expected : << rc, d >> \notin seen })
               incomplete_count ==
                   Cardinality({ d \in expected : << rc, d >> \in lacking })
           IN /\ response.dataset_size = Cardinality(expected)
              /\ response.run_config_percent_complete[rc] =
                   OneMinus(Div(incomplete_count + missing_count,
                                Cardinality(expected)))
      /\ ( /\ on_scenario /\ nread = Len(ScenarioRuns)
           /\ expected_dataset_ids = {"a", "b", "c"}
           /\ "rc1" \in task_runs_configs
           /\ output_scores = {"acc"} )
         => /\ response.results["rc1"] = ("acc" :> [mean_score |-> << 1, 1 >>])
            /\ score_counts["rc1"]["acc"] = 1
            /\ partial_incomplete_counts["rc1"] = 1
            /\ remaining_expected_dataset_ids["rc1"] = {"c"}
            /\ response.run_config_percent_complete["rc1"] = << 1, 3 >>

C2_Witness ==
    /\ pc = "agg_done"
    /\ on_scenario /\ nread = Len(ScenarioRuns)
    /\ expected_dataset_ids = {"a", "b", "c"}
    /\ task_runs_configs = {"rc1", "rc2"}
    /\ output_scores = {"acc"}

\* C3: after every prefix of the stream, for every run config,
\* incomplete_count + |remaining| <= dataset_size, and the fraction complete
\* is in [0, 1].
C3_ClosedAccounting ==
    InAggregator =>
      \A rc \in task_runs_configs :
        /\ partial_incomplete_counts[rc]
             + Cardinality(remaining_expected_dataset_ids[rc])
               <= Cardinality(expected_dataset_ids)
        /\ IsFraction(SummaryOf(Accumulators).run_config_percent_complete[rc])
        /\ pc = "agg_done"
             => IsFraction(response.run_config_percent_complete[rc])

C3_Witness ==
    /\ pc = "agg_done"
    /\ \E rc \in task_runs_configs :
         /\ partial_incomplete_counts[rc] > 0
         /\ remaining_expected_dataset_ids[rc] # {}
         /\ partial_incomplete_counts[rc]
              + Cardinality(remaining_expected_dataset_ids[rc])
                = Cardinality(expected_dataset_ids)

\* C4: sums and counts start at 0; a counted run adds, for each declared key
\* it contains, its value to the sum and 1 to the count of that key, and
\* nothing for a key it lacks; it adds 1 to incomplete_count when it lacks any
\* declared key, however many; no other run changes them; the mean returned
\* is sum / count.
C4_MeanOverCountedRuns ==
    /\ (pc = "agg_loop" /\ nread = 0) =>
          \A rc \in RunConfigIds, k \in ScoreKeys :
             /\ Total(Accumulators, rc, k) = 0
             /\ Count(Accumulators, rc, k) = 0
             /\ rc \in task_runs_configs => partial_incomplete_counts[rc] = 0
    /\ AggReading =>
          \A run \in EvalRuns :
             LET old == Accumulators
                 new == After(run)
                 rc == run.task_run_config_id
                 lacks == output_scores \ DOMAIN run.scores # {}
             IN IF FirstExpected(run)
                THEN /\ \A k \in output_scores :
                          IF k \in DOMAIN run.scores
                          THEN /\ Total(new, rc, k) = Total(old, rc, k) + run.scores[k]
                               /\ Count(new, rc, k) = Count(old, rc, k) + 1
                          ELSE /\ Total(new, rc, k) = Total(old, rc, k)
                               /\ Count(new, rc, k) = Count(old, rc, k)
                     /\ new.partial[rc] = old.partial[rc] + (IF lacks THEN 1 ELSE 0)
                     /\ \A other \in RunConfigIds \ {rc}, k \in ScoreKeys :
                          /\ Total(new, other, k) = Total(old, other, k)
                          /\ Count(new, other, k) = Count(old, other, k)
                          /\ other \in task_runs_configs =>
                               new.partial[other] = old.partial[other]
                ELSE /\ new.totals = old.totals
                     /\ new.counts = old.counts
                     /\ new.partial = old.partial
    /\ pc = "agg_done" =>
          \A rc \in RunConfigIds, k \in ScoreKeys :
             Count(Accumulators, rc, k) > 0 =>
               /\ rc \in DOMAIN response.results
               /\ k \in DOMAIN response.results[rc]
               /\ response.results[rc][k].mean_score
                    = Div(Total(Accumulators, rc, k), Count(Accumulators, rc, k))

C4_Witness ==
    /\ pc = "agg_done"
    /\ \E rc \in DOMAIN score_counts :
         /\ DOMAIN score_counts[rc] = {"acc", "overall_rating"}
         /\ score_counts[rc]["acc"] = 2
         /\ score_counts[rc]["overall_rating"] = 1
         /\ total_scores[rc]["acc"] = 3
         /\ partial_incomplete_counts[rc] = 2
         /\ response.results[rc]["acc"].mean_score = << 3, 2 >>

\* C5: a key appears in a run config's results only if a counted run of that
\* run config reported a value for it; a declared key no counted run reported
\* is absent, not 0.
C5_MeanOmission ==
    pc = "agg_done" =>
      \A rc \in DOMAIN response.results :
        \A k \in DOMAIN response.results[rc] :
           /\ << rc, k >> \in reported
           /\ k \in output_scores

C5_Witness ==
    /\ pc = "agg_done"
    /\ \E rc \in DOMAIN response.results :
         /\ \E k \in output_scores : k \notin DOMAIN response.results[rc]
         /\ response.results[rc] # Empty

\* C6: a run whose dataset id is not in the eval set filter changes no sum,
\* count, incomplete counter or remaining set.
C6_UnexpectedIdExcluded ==
    AggReading =>
      \A run \in EvalRuns :
         ~MatchesEvalSet(run.dataset_id) => After(run) = Accumulators

C6_Witness ==
    /\ pc = "agg_done"
    /\ \E p \in seen : p[1] \in task_runs_configs /\ ~MatchesEvalSet(p[2])
    /\ \E rc \in DOMAIN response.results : response.results[rc] # Empty

\* C7: a run without task_run_config_id, or with one that is no run config of
\* the task, changes no accumulator, and its id gets no entry in results or in
\* run_config_percent_complete.
C7_ForeignRunConfigSkipped ==
    /\ AggReading =>
          \A run \in EvalRuns :
             run.task_run_config_id \notin task_runs_configs
                => After(run) = Accumulators
    /\ pc = "agg_done" =>
          /\ DOMAIN response.results \subseteq task_runs_configs
          /\ DOMAIN response.run_config_percent_complete = task_runs_configs

C7_Witness ==
    /\ pc = "agg_done"
    /\ task_runs_configs = {"rc1"}
    /\ \E d \in expected_dataset_ids :
         << None, d >> \in seen /\ << "rc2", d >> \in seen
    /\ "rc1" \in DOMAIN response.results

\* C8: when the eval set filter matches none of the task's runs the call
\* raises 400 and returns no summary; the loop and the division by the
\* dataset size are reached only with a non-empty expected set.
C8_EmptyDatasetRaises ==
    /\ (pc \in {"raised", "agg_loop", "agg_done"}
           /\ ~ \E d \in DatasetIds : MatchesEvalSet(d))
          => (pc = "raised" /\ response = EmptyDatasetError)
    /\ InAggregator => Cardinality(expected_dataset_ids) > 0
    /\ pc = "raised" => ~ \E d \in DatasetIds : MatchesEvalSet(d)

C8_Witness ==
    /\ pc = "raised"
    /\ response.status_code = 400
    /\ task_runs_configs # {}

(***************************************************************************)
(* Properties of the Correlation Comparator                                *)
(***************************************************************************)
\* the dataset item carries the tag of the evaluator's eval configs filter
MatchesEvalConfigsFilter(id) ==
    id \in DOMAIN task_runs /\ GoldenTag \in task_runs[id].tags

\* the remaining sets and calculators after `run` is read in this state
CmpAfter(run) ==
    ProcessConfigRun(CmpAccumulators, eval_config, run,
                     expected_dataset_items(task_runs, GoldenTag),
                     output_scores, score_key_to_task_requirement_id)

\* C9: when the eval configs filter matches none of the task's runs the call
\* returns, without an error and without reading a run, the summary with
\* dataset_size 0, no results, no percent complete and the three census
\* counts 0, whatever eval configs exist.
C9_EmptyComparison ==
    (pc \in {"cmp_loop", "cmp_done"}
        /\ ~ \E d \in DatasetIds : MatchesEvalConfigsFilter(d))
      => /\ pc = "cmp_done"
         /\ nread = 0
         /\ response.status_code = 200
         /\ response.dataset_size = 0
         /\ response.results = Empty
         /\ response.eval_config_percent_complete = Empty
         /\ response.fully_rated_count = 0
         /\ response.partially_rated_count = 0
         /\ response.not_rated_count = 0

C9_Witness ==
    /\ pc = "cmp_done"
    /\ ~ \E d \in DatasetIds : MatchesEvalConfigsFilter(d)
    /\ eval_configs = << "e1", "e2" >>
    /\ output_scores # {}

\* C10: of the runs of one eval config only the first run for each expected
\* dataset id is processed: a run whose dataset id was read before under the
\* config, or is not expected, changes no remaining set and no calculator.
\* The first run of the config for an expected id is processed, whatever was
\* read under the other configs, and removes the id from its own remaining
\* set only.
C10_FirstRunPerConfig ==
    /\ (pc = "cmp_loop" /\ eval_config # None) =>
          remaining_expected_dataset_ids[eval_config] =
            { d \in DatasetIds : MatchesEvalConfigsFilter(d)
                                   /\ << eval_config, d >> \notin seen }
    /\ CmpReading =>
         \A run \in ComparedRuns :
           LET d == run.dataset_id
               new == CmpAfter(run)
           IN IF << eval_config, d >> \in seen \/ ~MatchesEvalConfigsFilter(d)
              THEN new = CmpAccumulators
              ELSE /\ d \in remaining_expected_dataset_ids[eval_config]
                   /\ new.remaining[eval_config] =
                        remaining_expected_dataset_ids[eval_config] \ {d}
                   /\ \A other \in DOMAIN new.remaining \ {eval_config} :
                        new.remaining[other] =
                          remaining_expected_dataset_ids[other]

C10_Witness ==
    /\ pc = "cmp_done"
    /\ \E d \in expected_dataset_ids :
         /\ << "e1", d >> \in repeated
         /\ << "e2", d >> \in seen
         /\ d \notin remaining_expected_dataset_ids["e2"]
    /\ "e1" \in DOMAIN response.results
    /\ "e2" \in DOMAIN response.results

\* the number of pairs the (eval config, key) calculator holds
PairCount(calculators, ec, k) ==
    IF ec \in DOMAIN calculators /\ k \in DOMAIN calculators[ec]
    THEN Len(calculators[ec][k]) ELSE 0

\* the eval config's first run for an expected item: the run is processed
FirstCompared(run) ==
    /\ MatchesEvalConfigsFilter(run.dataset_id)
    /\ << eval_config, run.dataset_id >> \notin seen

\* C11: when a run is processed, each (eval config, key) calculator gains one
\* pair, the run's score and the item's human rating, exactly when the key is
\* a declared output score that the run scored and the item has a human rating
\* for; with either one missing its pair count is unchanged, and so is every
\* calculator of the other eval configs.
C11_PairNeedsBothScores ==
    CmpReading =>
      \A run \in ComparedRuns :
        FirstCompared(run) =>
          LET new == CmpAfter(run).calculators
              item == task_runs[run.dataset_id]
              both(k) == /\ k \in output_scores
                         /\ k \in DOMAIN run.scores
                         /\ HasHumanRating(item, k,
                                           score_key_to_task_requirement_id)
          IN /\ \A k \in ScoreKeys :
                  PairCount(new, eval_config, k) =
                    PairCount(correlation_calculators, eval_config, k)
                      + (IF both(k) THEN 1 ELSE 0)
             /\ \A k \in ScoreKeys :
                  both(k) =>
                    new[eval_config][k][PairCount(new, eval_config, k)]
                        .measured_score = run.scores[k]
             /\ \A ec \in Range(eval_configs) \ {eval_config}, k \in ScoreKeys :
                  PairCount(new, ec, k) =
                    PairCount(correlation_calculators, ec, k)

\* both items are processed under e1 and both runs score "acc", which is a
\* declared score, yet one pair only is held: one item has no human rating
C11_Witness ==
    /\ pc = "cmp_done"
    /\ expected_dataset_ids = {"a", "b"}
    /\ "e1" \in Range(eval_configs)
    /\ remaining_expected_dataset_ids["e1"] = {}
    /\ "acc" \in output_scores
    /\ PairCount(correlation_calculators, "e1", "acc") = 1
    /\ \E d \in expected_dataset_ids :
         ~HasHumanRating(task_runs[d], "acc", score_key_to_task_requirement_id)

\* the comparison returned from its general path
Compared == pc = "cmp_done" /\ expected_dataset_ids # {}

\* the expected items the eval config has a valid pair for under the key
PairedItems(ec, k) == { d \in expected_dataset_ids : << ec, k, d >> \in paired }

\* C12: every (eval config id, score key) entry of the returned results has
\* received a valid pair: some first run of the config for an expected item
\* scored the key and the item has a human rating for it.  An eval config or
\* key without such a pair has no entry.
C12_ResultsNeedAPair ==
    Compared =>
      /\ \A ec \in DOMAIN response.results :
           /\ ec \in Range(eval_configs)
           /\ \E k \in ScoreKeys : PairedItems(ec, k) # {}
           /\ \A k \in DOMAIN response.results[ec] :
                k \in output_scores /\ PairedItems(ec, k) # {}
      /\ \A ec \in Range(eval_configs) :
           (\A k \in ScoreKeys : PairedItems(ec, k) = {})
              => ec \notin DOMAIN response.results

\* e1 has a result for "acc" and none for "overall_rating", which its run
\* scored too; e2, whose run was processed as well, has no entry at all
C12_Witness ==
    /\ Compared
    /\ output_scores = {"acc", "overall_rating"}
    /\ eval_configs = << "e1", "e2" >>
    /\ DOMAIN response.results = {"e1"}
    /\ DOMAIN response.results["e1"] = {"acc"}
    /\ \E d \in expected_dataset_ids : << "e2", d >> \in seen

\* C13: for every eval config the percent complete is 1 - |remaining| /
\* dataset_size, remaining being the expected ids no run of the config was
\* read for; it does not depend on the scores of the runs or on the ratings.
C13_ComparePercentComplete ==
    Compared =>
      /\ DOMAIN response.eval_config_percent_complete = Range(eval_configs)
      /\ response.dataset_size = Cardinality(expected_dataset_ids)
      /\ \A ec \in Range(eval_configs) :
           LET remaining == { d \in DatasetIds :
                                /\ MatchesEvalConfigsFilter(d)
                                /\ << ec, d >> \notin seen }
           IN response.eval_config_percent_complete[ec] =
                OneMinus(Div(Cardinality(remaining), response.dataset_size))

\* e1 is complete although no run of it gave a pair; e2 is half complete
C13_Witness ==
    /\ Compared
    /\ eval_configs = << "e1", "e2" >>
    /\ output_scores # {}
    /\ response.eval_config_percent_complete["e1"] = << 1, 1 >>
    /\ response.eval_config_percent_complete["e2"] = << 1, 2 >>
    /\ "e1" \notin DOMAIN response.results

\* C14: the three census counts of a returned comparison sum to dataset_size
\* (each expected item is counted once), also when no item is expected.
C14_CensusPartition ==
    pc = "cmp_done" =>
      /\ response.fully_rated_count + response.partially_rated_count
           + response.not_rated_count = response.dataset_size
      /\ response.fully_rated_count >= 0
      /\ response.partially_rated_count >= 0
      /\ response.not_rated_count >= 0

C14_Witness ==
    /\ Compared
    /\ response.dataset_size = 2
    /\ response.fully_rated_count = 1
    /\ response.partially_rated_count = 1

\* the declared output scores the expected item has a human rating for
RatedKeys(d) ==
    { k \in output_scores :
        HasHumanRating(task_runs[d], k, score_key_to_task_requirement_id) }

\* C15 as claimed: an expected item is counted as fully rated exactly when
\* every declared output score has a human rating on it, as partially rated
\* exactly when at least one but not all have, as not rated exactly when none
\* has, for every number of declared output scores, zero included.
C15_CensusAsClaimed ==
    Compared =>
      /\ response.fully_rated_count =
           Cardinality({ d \in expected_dataset_ids :
                           RatedKeys(d) = output_scores })
      /\ response.partially_rated_count =
           Cardinality({ d \in expected_dataset_ids :
                           RatedKeys(d) # {} /\ RatedKeys(d) # output_scores })
      /\ response.not_rated_count =
           Cardinality({ d \in expected_dataset_ids : RatedKeys(d) = {} })

\* C15: an expected item is counted as fully rated exactly when the evaluator
\* declares at least one output score and every declared one has a human
\* rating on the item, as partially rated exactly when at least one but not
\* all have, and as not rated exactly when none has; with no declared output
\* score every item is counted as not rated.
C15_CensusByRating ==
    Compared =>
      /\ response.fully_rated_count =
           Cardinality({ d \in expected_dataset_ids :
                           output_scores # {} /\ RatedKeys(d) = output_scores })
      /\ response.partially_rated_count =
           Cardinality({ d \in expected_dataset_ids :
                           RatedKeys(d) # {} /\ RatedKeys(d) # output_scores })
      /\ response.not_rated_count =
           Cardinality({ d \in expected_dataset_ids : RatedKeys(d) = {} })
      /\ output_scores = {} =>
           response.not_rated_count = response.dataset_size

\* no output score is declared and the two expected items, one of them with a
\* human rating, are both counted as not rated
C15_Witness ==
    /\ Compared
    /\ output_scores = {}
    /\ response.dataset_size = 2
    /\ response.not_rated_count = 2
    /\ response.fully_rated_count = 0
    /\ \E d \in expected_dataset_ids : task_runs[d].rating.rated

\* the human score the claim C16 gives an item for a key
ClaimedHumanScore(task_run, k) ==
    LET rating == task_run.rating
        reqs == score_key_to_task_requirement_id
    IN CASE ~rating.rated -> Empty
         [] k = "overall_rating" -> rating.value
         [] k \notin DOMAIN reqs -> Empty
         [] reqs[k] \notin DOMAIN rating.requirement_ratings -> Empty
         [] OTHER -> << rating.requirement_ratings[reqs[k]] >>

\* C16: the human score of an expected item for "overall_rating" is the
\* item's overall rating value; for another key it is the value of the rating
\* of the requirement the key maps to; it is None when the item has no
\* rating, the key maps to no requirement or the requirement has no rating
\* on the item.  The pair a processed run adds carries that human score.
C16_HumanScore ==
    pc = "cmp_loop" =>
      /\ \A d \in expected_dataset_ids, k \in ScoreKeys \cup {"other"} :
           human_score_from_task_run(task_runs[d], k,
                                     score_key_to_task_requirement_id)
             = ClaimedHumanScore(task_runs[d], k)
      /\ CmpReading =>
           \A run \in ComparedRuns :
             FirstCompared(run) =>
               \A k \in output_scores \cap DOMAIN run.scores :
                 LET new == CmpAfter(run).calculators
                     claimed == ClaimedHumanScore(task_runs[run.dataset_id], k)
                 IN IF claimed = Empty
                    THEN PairCount(new, eval_config, k) =
                           PairCount(correlation_calculators, eval_config, k)
                    ELSE new[eval_config][k][PairCount(new, eval_config, k)]
                           .human_score = claimed[1]

\* an item rated 2 overall and 1 on requirement r1, the requirement of key
\* "acc", gave e1 a pair with its human score for each of the two keys
C16_Witness ==
    /\ Compared
    /\ output_scores = {"acc", "overall_rating"}
    /\ score_key_to_task_requirement_id = ("acc" :> "r1")
    /\ "e1" \in DOMAIN correlation_calculators
    /\ DOMAIN correlation_calculators["e1"] = {"acc", "overall_rating"}
    /\ correlation_calculators["e1"]["acc"][1].human_score = 1
    /\ correlation_calculators["e1"]["overall_rating"][1].human_score = 2

\* the pairs have no variance on one side
ZeroVariance(scores) ==
    \/ \A i, j \in 1..Len(scores) :
          scores[i].measured_score = scores[j].measured_score
    \/ \A i, j \in 1..Len(scores) :
          scores[i].human_score = scores[j].human_score

\* C19: the comparison returns, it does not raise, and the result of every
\* (eval config, key) that got fewer than 2 valid pairs over the dataset, or
\* pairs without variance, signals "undefined"; so does the result of a
\* single valid pair.
C19_DegenerateUndefined ==
    Compared =>
      /\ response.status_code = 200
      /\ \A ec \in Range(eval_configs), k \in output_scores :
           LET n == Cardinality(PairedItems(ec, k))
           IN n >= 1 =>
                /\ ec \in DOMAIN response.results
                /\ k \in DOMAIN response.results[ec]
                /\ response.results[ec][k].pair_count = n
                /\ n = 1 => response.results[ec][k].undefined
                /\ ZeroVariance(correlation_calculators[ec][k])
                     => response.results[ec][k].undefined

\* e1 got one pair and e2 two pairs of equal measured score: both undefined
C19_Witness ==
    /\ Compared
    /\ eval_configs = << "e1", "e2" >>
    /\ "acc" \in output_scores
    /\ Cardinality(PairedItems("e1", "acc")) = 1
    /\ Cardinality(PairedItems("e2", "acc")) = 2
    /\ response.results["e1"]["acc"].undefined
    /\ response.results["e2"]["acc"].undefined

(***************************************************************************)
(* Calls over a store.  The store holds the task's runs, run configs and   *)
(* evaluator with its eval configs and their eval runs; two clients call   *)
(* the handlers over it, each call with its own locals, their steps        *)
(* interleaved (the endpoints of eval_api.py are coroutines that call the  *)
(* handlers without awaiting, so the server runs the calls of one process  *)
(* one after the other: every order it allows is among the interleavings). *)
(* A Python set is an object: `sets` is the heap of the set                *)
(* objects of a call, sets[1] the expected dataset ids, and `refs` maps a  *)
(* config id to the object that is its remaining set.                      *)
(***************************************************************************)
MaxStored == 2
MaxCalls == 2

Clients == {1, 2}

\* the eval runs the store can hold for eval config e1
StoredRuns ==
    { [task_run_config_id |-> "rc1", dataset_id |-> "a", scores |-> ("acc" :> 1)],
      [task_run_config_id |-> "rc1", dataset_id |-> "a", scores |-> Empty],
      [task_run_config_id |-> "rc1", dataset_id |-> "b", scores |-> ("acc" :> 2)],
      [task_run_config_id |-> "rc2", dataset_id |-> "a", scores |-> ("acc" :> 2)] }

\* the eval runs of eval config e2
E2Runs ==
    << [task_run_config_id |-> "rc1", dataset_id |-> "a", scores |-> ("acc" :> 2)],
       [task_run_config_id |-> None, dataset_id |-> "a", scores |-> ("acc" :> 1)] >>

SeqsUpTo(S, n) == UNION { [1..k -> S] : k \in 0..n }

\* the task's runs: the tagged ones carry both filter tags; item a is rated
StoredTaskRuns(tagged) ==
    [ id \in DatasetIds |->
        [ tags |-> IF id \in tagged THEN {EvalSetTag, GoldenTag} ELSE {},
          rating |-> IF id = "a"
                     THEN [rated |-> TRUE, value |-> << 2 >>,
                           requirement_ratings |-> ("r1" :> 1)]
                     ELSE NoRating ] ]

StoreOf(evals, tagged, runs) ==
    [ evals |-> evals,
      eval_configs |-> << "e1", "e2" >>,
      run_configs |-> << "rc1", "rc2" >>,
      task_runs |-> StoredTaskRuns(tagged),
      output_scores |-> {"acc"},
      requirement_ids |-> ("acc" :> "r1"),
      eval_runs |-> ("e1" :> runs) @@ ("e2" :> E2Runs) ]

\* a task without evaluator, or with the evaluator ev1
Stores ==
    { StoreOf({}, {}, << >>) }
      \cup { StoreOf({"ev1"}, tagged, runs) :
               tagged \in { {}, {"a", "b"} },
               runs \in SeqsUpTo(StoredRuns, MaxStored) }

\* the ids a client can ask for; ev9, e9 and rc9 are never stored
EvalIdsAsked == {"ev1", "ev9"}
EvalConfigsAsked ==
    { << "ev1", "e1" >>, << "ev1", "e2" >>, << "ev1", "e9" >>, << "ev9", "e1" >> }
RunConfigsAsked ==
    { << "ev1", "rc1" >>, << "ev1", "rc9" >>, << "ev9", "rc1" >> }

NotFound(detail) == [ status_code |-> 404, detail |-> detail ]

Found(id) == [ status_code |-> 200, id |-> id ]

\* eval_from_id: the raised HTTPException is the returned record
eval_from_id(s, eval_id) ==
    IF eval_id \in s.evals THEN Found(eval_id) ELSE NotFound("Eval not found")

\* mutant: an unknown id gives the first eval config
eval_config_or_first(s, eval_id, eval_config_id) ==
    IF eval_id \notin s.evals THEN NotFound("Eval not found")
    ELSE IF eval_config_id \in Range(s.eval_configs) THEN Found(eval_config_id)
    ELSE Found(s.eval_configs[1])

eval_config_from_id(s, eval_id, eval_config_id) ==
    LET eval == eval_from_id(s, eval_id)
    IN IF eval.status_code = 404 THEN eval
       ELSE IF eval_config_id \in Range(s.eval_configs)
            THEN Found(eval_config_id)
            ELSE NotFound("Eval config not found")

task_run_config_from_id(s, run_config_id) ==
    IF run_config_id \in Range(s.run_configs)
    THEN Found(run_config_id)
    ELSE NotFound("Task run config not found")

\* mutant: no copy is made, the set object itself is used
set_alias(sets, ref) == [ sets |-> sets, ref |-> ref ]

\* set(expected_dataset_ids): a new set object with the elements of sets[ref]
set_copy(sets, ref) == [ sets |-> Append(sets, sets[ref]), ref |-> Len(sets) + 1 ]

\* { config.id: set(expected_dataset_ids) for config in configs }
RECURSIVE remaining_copies(_, _, _)
remaining_copies(sets, ids, refs) ==
    IF ids = << >> THEN [ sets |-> sets, refs |-> refs ]
    ELSE LET copy == set_copy(sets, 1)
         IN remaining_copies(copy.sets, Tail(ids), (Head(ids) :> copy.ref) @@ refs)

\* mutant: the sums and counts of the client's previous call are kept
kept_score_dicts(previous) == previous

\* total_scores = {} and score_counts = {} at every call
new_score_dicts(previous) == [ totals |-> Empty, counts |-> Empty ]

\* the locals of a client that has made no call
IdleCall ==
    [ pc |-> "idle", kind |-> None, eval_id |-> None, eval_config_id |-> None,
      run_config_id |-> None, eval_config |-> None, sets |-> << >>,
      refs |-> Empty,
      partial |-> Empty, totals |-> Empty, counts |-> Empty,
      calculators |-> Empty, idx |-> 0, response |-> NoResponse, ncalls |-> 0 ]

\* remaining_expected_dataset_ids as a dict of sets
Remaining(call) == [ id \in DOMAIN call.refs |-> call.sets[call.refs[id]] ]

\* the accumulators of an aggregator call
CallAccumulators(call) ==
    [ remaining |-> Remaining(call), totals |-> call.totals,
      counts |-> call.counts, partial |-> call.partial ]

CanCall(c) ==
    /\ calls[c].pc \in {"idle", "done", "raised"}
    /\ calls[c].ncalls < MaxCalls

Raised(call, error) == [ call EXCEPT !.pc = "raised", !.response = error ]

\* lines 364-388 of a call over the store
StoreAggEnter(c) ==
    /\ CanCall(c)
    /\ \E asked \in EvalConfigsAsked :
         LET eval_id == asked[1]
             eval_config_id == asked[2]
             eval == eval_from_id(store, eval_id)
             config == eval_config_from_id(store, eval_id, eval_config_id)
             expected == dataset_ids_in_filter(store.task_runs, EvalSetTag)
             copies == remaining_copies(<< expected >>, store.run_configs, Empty)
             call == [ IdleCall EXCEPT !.kind = "agg", !.eval_id = eval_id,
                                       !.eval_config_id = eval_config_id,
                                       !.ncalls = calls[c].ncalls + 1 ]
         IN calls' = [ calls EXCEPT ![c] =
              IF eval.status_code = 404 THEN Raised(call, eval)
              ELSE IF config.status_code = 404 THEN Raised(call, config)
              ELSE IF NoDatasetIds(expected)
                   THEN Raised(call, EmptyDatasetError)
              ELSE [ call EXCEPT
                       !.pc = "agg_loop",
                       !.eval_config = config.id,
                       !.sets = copies.sets,
                       !.refs = copies.refs,
                       !.partial = [ rc \in Range(store.run_configs) |-> 0 ],
                       !.totals = new_score_dicts(calls[c]).totals,
                       !.counts = new_score_dicts(calls[c]).counts ] ]
    /\ UNCHANGED << store, handler_vars, service_vars >>

\* lines 390-426: the next iteration of the loop over eval_config.runs()
StoreAggReadRun(c) ==
    LET call == calls[c]
        runs == store.eval_runs[call.eval_config]
    IN /\ call.pc = "agg_loop"
       /\ call.idx < Len(runs)
       /\ LET run == runs[call.idx + 1]
              acc == CallAccumulators(call)
              new == ProcessEvalRun(acc, run, store.output_scores)
              rc == run.task_run_config_id
          IN calls' = [ calls EXCEPT ![c] =
               [ call EXCEPT
                   !.idx = @ + 1,
                   !.sets = IF ShouldCount(acc.remaining, run)
                            THEN [ call.sets EXCEPT
                                     ![call.refs[rc]] = new.remaining[rc] ]
                            ELSE call.sets,
                   !.totals = new.totals,
                   !.counts = new.counts,
                   !.partial = new.partial ] ]
       /\ UNCHANGED << store, handler_vars, service_vars >>

\* lines 428-453: the runs are exhausted
StoreAggReturn(c) ==
    LET call == calls[c]
    IN /\ call.pc = "agg_loop"
       /\ call.idx = Len(store.eval_runs[call.eval_config])
       /\ calls' = [ calls EXCEPT ![c] =
            [ call EXCEPT
                !.pc = "done",
                !.response = EvalResultSummary(Range(store.run_configs),
                                               CallAccumulators(call),
                                               call.sets[1]) ] ]
       /\ UNCHANGED << store, handler_vars, service_vars >>

\* the nested loops of lines 492-493 as one sequence of (eval config, run)
RECURSIVE ConfigRuns(_, _)
ConfigRuns(s, ecs) ==
    IF ecs = << >> THEN << >>
    ELSE [ i \in 1..Len(s.eval_runs[Head(ecs)]) |->
             [ eval_config |-> Head(ecs), run |-> s.eval_runs[Head(ecs)][i] ] ]
           \o ConfigRuns(s, Tail(ecs))

\* the accumulators of a comparator call
CallCmpAccumulators(call) ==
    [ remaining |-> Remaining(call), calculators |-> call.calculators ]

\* lines 459-490 of a call over the store
StoreCmpEnter(c) ==
    /\ CanCall(c)
    /\ \E eval_id \in EvalIdsAsked :
         LET eval == eval_from_id(store, eval_id)
             items == expected_dataset_items(store.task_runs, GoldenTag)
             copies == remaining_copies(<< DOMAIN items >>, store.eval_configs,
                                        Empty)
             call == [ IdleCall EXCEPT !.kind = "cmp", !.eval_id = eval_id,
                                       !.ncalls = calls[c].ncalls + 1 ]
         IN calls' = [ calls EXCEPT ![c] =
              IF eval.status_code = 404 THEN Raised(call, eval)
              ELSE IF NoExpectedItems(DOMAIN items)
                   THEN [ call EXCEPT !.pc = "done",
                                      !.response = EmptyCompareSummary ]
              ELSE [ call EXCEPT !.pc = "cmp_loop",
                                 !.sets = copies.sets,
                                 !.refs = copies.refs ] ]
    /\ UNCHANGED << store, handler_vars, service_vars >>

\* lines 492-548: the next iteration of the nested loops
StoreCmpReadRun(c) ==
    LET call == calls[c]
        todo == ConfigRuns(store, store.eval_configs)
    IN /\ call.pc = "cmp_loop"
       /\ call.idx < Len(todo)
       /\ LET ec == todo[call.idx + 1].eval_config
              run == todo[call.idx + 1].run
              items == expected_dataset_items(store.task_runs, GoldenTag)
              acc == CallCmpAccumulators(call)
              new == ProcessConfigRun(acc, ec, run, items, store.output_scores,
                                      store.requirement_ids)
          IN calls' = [ calls EXCEPT ![c] =
               [ call EXCEPT
                   !.idx = @ + 1,
                   !.sets = IF ShouldProcess(items, acc.remaining, ec, run)
                            THEN [ call.sets EXCEPT
                                     ![call.refs[ec]] = new.remaining[ec] ]
                            ELSE call.sets,
                   !.calculators = new.calculators ] ]
       /\ UNCHANGED << store, handler_vars, service_vars >>

\* lines 550-586: the runs of every eval config are exhausted
StoreCmpReturn(c) ==
    LET call == calls[c]
    IN /\ call.pc = "cmp_loop"
       /\ call.idx = Len(ConfigRuns(store, store.eval_configs))
       /\ calls' = [ calls EXCEPT ![c] =
            [ call EXCEPT
                !.pc = "done",
                !.response =
                    EvalConfigCompareSummary(
                        Range(store.eval_configs), CallCmpAccumulators(call),
                        expected_dataset_items(store.task_runs, GoldenTag),
                        store.output_scores, store.requirement_ids) ] ]
       /\ UNCHANGED << store, handler_vars, service_vars >>

\* the eval runs of an eval config made for a run config
RunResults(runs, run_config_id) ==
    SelectSeq(runs, LAMBDA r : r.task_run_config_id = run_config_id)

\* get_eval_run_results: the three lookups, then the runs of the run config
StoreRunResults(c) ==
    /\ CanCall(c)
    /\ \E asked \in RunConfigsAsked :
         LET eval_id == asked[1]
             eval_config_id == "e1"
             run_config_id == asked[2]
             eval == eval_from_id(store, eval_id)
             config == eval_config_from_id(store, eval_id, eval_config_id)
             run_config == task_run_config_from_id(store, run_config_id)
             call == [ IdleCall EXCEPT !.kind = "results", !.eval_id = eval_id,
                                       !.eval_config_id = eval_config_id,
                                       !.run_config_id = run_config_id,
                                       !.ncalls = calls[c].ncalls + 1 ]
         IN calls' = [ calls EXCEPT ![c] =
              IF eval.status_code = 404 THEN Raised(call, eval)
              ELSE IF config.status_code = 404 THEN Raised(call, config)
              ELSE IF run_config.status_code = 404 THEN Raised(call, run_config)
              ELSE [ call EXCEPT
                       !.pc = "done",
                       !.response =
                           [ status_code |-> 200,
                             results |-> RunResults(store.eval_runs[config.id],
                                                    run_config_id),
                             eval |-> eval.id,
                             eval_config |-> config.id,
                             run_config |-> run_config.id ] ] ]
    /\ UNCHANGED << store, handler_vars, service_vars >>

StoreInit ==
    /\ HandlerIdle
    /\ store \in Stores
    /\ calls = [ c \in Clients |-> IdleCall ]
    /\ ServicesIdle

StoreNext ==
    \E c \in Clients :
        \/ StoreAggEnter(c)
        \/ StoreAggReadRun(c)
        \/ StoreAggReturn(c)
        \/ StoreCmpEnter(c)
        \/ StoreCmpReadRun(c)
        \/ StoreCmpReturn(c)
        \/ StoreRunResults(c)

StoreSpec == StoreInit /\ [][StoreNext]_vars

(***************************************************************************)
(* Properties of the calls over a store                                    *)
(***************************************************************************)
\* the stored dataset ids that carry the tag
Tagged(s, tag) == { d \in DOMAIN s.task_runs : tag \in s.task_runs[d].tags }

RECURSIVE FoldEvalRuns(_, _, _)
FoldEvalRuns(acc, runs, outs) ==
    IF runs = << >> THEN acc
    ELSE FoldEvalRuns(ProcessEvalRun(acc, Head(runs), outs), Tail(runs), outs)

\* what the Score Aggregator returns when it runs alone over the store
AggregatorAlone(s, eval_id, eval_config_id) ==
    IF eval_id \notin s.evals THEN NotFound("Eval not found")
    ELSE IF eval_config_id \notin Range(s.eval_configs)
         THEN NotFound("Eval config not found")
    ELSE IF Tagged(s, EvalSetTag) = {} THEN EmptyDatasetError
    ELSE LET rcs == Range(s.run_configs)
             expected == Tagged(s, EvalSetTag)
             start == [ remaining |-> [ rc \in rcs |-> expected ],
                        totals |-> Empty, counts |-> Empty,
                        partial |-> [ rc \in rcs |-> 0 ] ]
         IN EvalResultSummary(rcs,
                FoldEvalRuns(start, s.eval_runs[eval_config_id], s.output_scores),
                expected)

RECURSIVE FoldConfigRuns(_, _, _, _)
FoldConfigRuns(acc, ec, runs, s) ==
    IF runs = << >> THEN acc
    ELSE FoldConfigRuns(
             ProcessConfigRun(acc, ec, Head(runs),
                              [ d \in Tagged(s, GoldenTag) |-> s.task_runs[d] ],
                              s.output_scores, s.requirement_ids),
             ec, Tail(runs), s)

RECURSIVE FoldConfigs(_, _, _)
FoldConfigs(acc, ecs, s) ==
    IF ecs = << >> THEN acc
    ELSE FoldConfigs(FoldConfigRuns(acc, Head(ecs), s.eval_runs[Head(ecs)], s),
                     Tail(ecs), s)

\* what the Correlation Comparator returns when it runs alone over the store
ComparatorAlone(s, eval_id) ==
    IF eval_id \notin s.evals THEN NotFound("Eval not found")
    ELSE IF Tagged(s, GoldenTag) = {} THEN EmptyCompareSummary
    ELSE LET ecs == Range(s.eval_configs)
             expected == Tagged(s, GoldenTag)
             start == [ remaining |-> [ ec \in ecs |-> expected ],
                        calculators |-> Empty ]
         IN EvalConfigCompareSummary(
                ecs, FoldConfigs(start, s.eval_configs, s),
                [ d \in expected |-> s.task_runs[d] ],
                s.output_scores, s.requirement_ids)

Alone(s, call) ==
    IF call.kind = "agg"
    THEN AggregatorAlone(s, call.eval_id, call.eval_config_id)
    ELSE ComparatorAlone(s, call.eval_id)

\* the dataset ids of the runs the call has read under the config
ReadUnder(call, id) ==
    IF call.kind = "agg"
    THEN LET runs == store.eval_runs[call.eval_config]
         IN { runs[i].dataset_id :
                i \in { j \in 1..call.idx : runs[j].task_run_config_id = id } }
    ELSE LET todo == ConfigRuns(store, store.eval_configs)
         IN { todo[i].run.dataset_id :
                i \in { j \in 1..call.idx : todo[j].eval_config = id } }

Finished(call) == call.pc \in {"done", "raised"}

\* while a call runs, its expected set stays the set of the tagged items and
\* the remaining set of each config lacks the ids read under that config only;
\* a finished call returned what it returns alone
C17_Independent ==
    \A c \in Clients :
      LET call == calls[c]
          expected == Tagged(store, IF call.kind = "agg"
                                    THEN EvalSetTag ELSE GoldenTag)
      IN /\ call.pc \in {"agg_loop", "cmp_loop"} =>
              /\ call.sets[1] = expected
              /\ \A id \in DOMAIN call.refs :
                   Remaining(call)[id] = expected \ ReadUnder(call, id)
         /\ (call.kind \in {"agg", "cmp"} /\ Finished(call)) =>
              call.response = Alone(store, call)

\* C17: the calls change nothing stored: the store is the same after every
\* step.  The remaining sets are copies: removing an id for one config
\* changes neither the remaining set of another config nor the expected set,
\* the denominator; and two calls whose steps interleave each return what
\* the call returns alone.
C17_NoSharedState == []C17_Independent /\ [][store' = store]_vars

\* client 1 finished an aggregation in which rc1 used up item a and rc2 did
\* not, while client 2 is inside the comparator's loop over the same store
C17_Witness ==
    /\ calls[1].kind = "agg"
    /\ calls[1].pc = "done"
    /\ Remaining(calls[1])["rc1"] = {"b"}
    /\ Remaining(calls[1])["rc2"] = {"a", "b"}
    /\ calls[1].response.dataset_size = 2
    /\ calls[2].pc = "cmp_loop"
    /\ calls[2].idx >= 1
    /\ Remaining(calls[2])["e1"] # Remaining(calls[2])["e2"]

\* the call asked for an id the store does not hold
AskedUnknown(call) ==
    \/ call.eval_id \notin store.evals
    \/ /\ call.kind \in {"agg", "results"}
       /\ call.eval_config_id \notin Range(store.eval_configs)
    \/ /\ call.kind = "results"
       /\ call.run_config_id \notin Range(store.run_configs)

\* C18: the three lookups fail with 404 for an id the store does not hold,
\* and a call that asked for such an id raised that 404 and returned no
\* summary; a 404 is raised for no other reason.
C18_UnknownIdNotFound ==
    /\ \A id \in EvalIdsAsked :
         id \notin store.evals => eval_from_id(store, id).status_code = 404
    /\ \A asked \in EvalConfigsAsked :
         (asked[1] \notin store.evals
            \/ asked[2] \notin Range(store.eval_configs))
           => eval_config_from_id(store, asked[1], asked[2]).status_code = 404
    /\ \A asked \in RunConfigsAsked :
         asked[2] \notin Range(store.run_configs)
           => task_run_config_from_id(store, asked[2]).status_code = 404
    /\ \A c \in Clients :
         calls[c].kind # None =>
           /\ AskedUnknown(calls[c]) =>
                /\ calls[c].pc = "raised"
                /\ calls[c].response.status_code = 404
           /\ calls[c].response.status_code = 404 => AskedUnknown(calls[c])

\* an aggregation asked for eval config e9 of the stored evaluator and a
\* comparison for evaluator ev9: both raised 404
C18_Witness ==
    /\ store.evals = {"ev1"}
    /\ calls[1].kind = "agg"
    /\ calls[1].eval_config_id = "e9"
    /\ calls[1].response = NotFound("Eval config not found")
    /\ calls[2].kind = "cmp"
    /\ calls[2].eval_id = "ev9"
    /\ calls[2].response = NotFound("Eval not found")

SameRequest(a, b) ==
    /\ a.kind = b.kind
    /\ a.eval_id = b.eval_id
    /\ a.eval_config_id = b.eval_config_id
    /\ a.run_config_id = b.run_config_id

\* C20: two finished calls of the same handler with the same ids, over the
\* same store, returned equal responses, whichever calls each client made
\* before.
C20_NoStateBetweenCalls ==
    \A c1, c2 \in Clients :
      (/\ calls[c1].kind \in {"agg", "cmp"}
       /\ Finished(calls[c1])
       /\ Finished(calls[c2])
       /\ SameRequest(calls[c1], calls[c2]))
        => calls[c1].response = calls[c2].response

\* client 2 made a call before it asked what client 1 asked: both got the
\* same means
C20_Witness ==
    /\ calls[1].kind = "agg"
    /\ calls[1].pc = "done"
    /\ calls[1].ncalls = 1
    /\ calls[2].pc = "done"
    /\ calls[2].ncalls = 2
    /\ SameRequest(calls[1], calls[2])
    /\ DOMAIN calls[1].response.results # {}
    /\ calls[1].response = calls[2].response

(***************************************************************************)
(* The order of the runs and their run config ids                          *)
(*                                                                         *)
(* eval_config.runs() lists the children of a folder: the order is the     *)
(* file system's.  The scores of the stores are whole numbers, whose       *)
(* float sums are exact in every order.                                    *)
(***************************************************************************)
\* the orders of n runs
Perms(n) == { p \in [1..n -> 1..n] : \A i, j \in 1..n : p[i] = p[j] => i = j }

Permuted(runs, p) == [ i \in 1..Len(runs) |-> runs[p[i]] ]

\* the runs that are the first of their (task_run_config_id, dataset_id)
FirstSeen(runs) ==
    { runs[j] : j \in { i \in 1..Len(runs) :
                          \A k \in 1..(i - 1) : PairOf(runs[k]) # PairOf(runs[i]) } }

NoDuplicatePair(runs) ==
    \A i, j \in 1..Len(runs) : PairOf(runs[i]) = PairOf(runs[j]) => i = j

\* the store with the runs of the eval config listed as `runs`
WithRuns(s, ec, runs) == [ s EXCEPT !.eval_runs[ec] = runs ]

Relabelled(runs) ==
    { [ i \in 1..Len(runs) |-> [ runs[i] EXCEPT !.task_run_config_id = f[i] ] ] :
        f \in [ 1..Len(runs) -> RunConfigIds \cup {None} ] }

\* the stores that differ from s in the task_run_config_id of eval runs only
RelabelledStores(s) ==
    { [ s EXCEPT !.eval_runs = ("e1" :> r1) @@ ("e2" :> r2) ] :
        r1 \in Relabelled(s.eval_runs["e1"]),
        r2 \in Relabelled(s.eval_runs["e2"]) }

\* the store whose eval runs all have task_run_config_id None
WithoutRunConfigs(s) ==
    [ s EXCEPT !.eval_runs =
        [ ec \in DOMAIN s.eval_runs |->
            [ i \in 1..Len(s.eval_runs[ec]) |->
                [ s.eval_runs[ec][i] EXCEPT !.task_run_config_id = None ] ] ] ]

\* C30: every run the comparison has read whose dataset id is expected,
\* whatever its task_run_config_id, has that id removed from the remaining
\* set of its eval config; and the stores that differ in the
\* task_run_config_id of eval runs only give equal summaries: a finished
\* comparison returned what it returns over the store without run config
\* ids, and so does the comparison over every store that differs from the
\* store in these ids only (the store is the same in every state of a
\* behaviour: the stores are compared in the state before the first call).
C30_RunConfigIdIgnored ==
    /\ (\A c \in Clients : calls[c].ncalls = 0) =>
         \A s \in RelabelledStores(store), eval_id \in EvalIdsAsked :
           ComparatorAlone(s, eval_id)
             = ComparatorAlone(WithoutRunConfigs(store), eval_id)
    /\ \A c \in Clients :
         LET call == calls[c]
             todo == ConfigRuns(store, store.eval_configs)
             items == expected_dataset_items(store.task_runs, GoldenTag)
         IN call.kind = "cmp" =>
              /\ call.pc \in {"cmp_loop", "done"} =>
                   \A i \in 1..call.idx :
                     todo[i].run.dataset_id \in DOMAIN items
                       => todo[i].run.dataset_id
                            \notin Remaining(call)[todo[i].eval_config]
              /\ call.pc = "done" =>
                   call.response
                     = ComparatorAlone(WithoutRunConfigs(store), call.eval_id)

\* a comparison read the run of e2 made for rc1 on item a: the run used up
\* item a for e2 and gave e2 a result, the same the comparison returns when
\* the run has no run config
C30_Witness ==
    /\ calls[1].kind = "cmp"
    /\ calls[1].pc = "done"
    /\ store.eval_runs["e2"][1].task_run_config_id = "rc1"
    /\ store.eval_runs["e2"][1].dataset_id = "a"
    /\ "e2" \in DOMAIN calls[1].refs
    /\ Remaining(calls[1])["e2"] = {"b"}
    /\ "e2" \in DOMAIN calls[1].response.results
    /\ calls[1].response =
         ComparatorAlone(
             [ store EXCEPT !.eval_runs["e2"][1].task_run_config_id = None ],
             "ev1")

(***************************************************************************)
(* FinetuneService of src/src/finetune/v2/finetune_service.py              *)
(*                                                                         *)
(* The fine-tunes of the task are a list kept by the kiln_ai store.  The   *)
(* provider adapters (status, create_and_start) belong to kiln_ai: a call  *)
(* of one of them is a step of the handler, and what the provider answers  *)
(* is drawn from the answers it can give.  The requests are served one     *)
(* after the other.                                                        *)
(***************************************************************************)
MaxFinetunes == 2

\* FineTuneStatusType of kiln_ai
FineTuneStatusTypes == {"unknown", "pending", "running", "completed", "failed"}

\* the providers with a registered adapter; every stored fine-tune was
\* created under one of them
finetune_registry == {"fireworks_ai", "together_ai"}

\* the dataset splits of the task
DatasetSplitIds == {"split1"}

\* the prompt generators prompt_builder_from_id knows
PromptGenerators == {"simple_prompt_builder"}

Finetune(id, status) ==
    [ id |-> id, provider |-> "fireworks_ai", latest_status |-> status ]

StoredFinetunes ==
    UNION { { [ i \in 1..n |-> Finetune(i, f[i]) ] :
                f \in [ 1..n -> FineTuneStatusTypes ] } : n \in 0..MaxFinetunes }

CreateFinetuneRequests ==
    [ kind : {"create_finetune"},
      provider : {"fireworks_ai", "invalid_provider"},
      dataset_id : {"split1", "invalid_split_id"},
      system_message_generator :
          {None, "", "simple_prompt_builder", "no_such_generator"},
      custom_system_message : {None, "", "Test system message"} ]

BadRequest(detail) == [ status_code |-> 400, detail |-> detail ]

\* Python's truth value of an optional string
Truthy(string) == string \notin {None, ""}

\* mutant: only a completed fine-tune is final
NeedsStatusUnlessCompleted(finetune) ==
    finetune.latest_status # "completed"

\* get_finetunes, lines 76-79: the fine-tunes whose status is fetched
NeedsStatus(finetune) ==
    finetune.latest_status \notin {"completed", "failed"}

\* system_message_from_request: the message, or the raised HTTPException
system_message_from_request(custom_system_message, system_message_generator) ==
    LET generated ==
            \/ ~Truthy(custom_system_message)
            \/ (custom_system_message = "" /\ system_message_generator # None)
        system_message ==
            IF generated THEN "built prompt" ELSE custom_system_message
    IN IF generated /\ system_message_generator = None
       THEN BadRequest("System message generator is required when custom system message is not provided")
       ELSE IF generated /\ system_message_generator \notin PromptGenerators
       THEN BadRequest("Error generating system message using generator")
       ELSE IF system_message \in {None, ""}
       THEN BadRequest("System message is required")
       ELSE [ status_code |-> 200, system_message |-> system_message ]

\* mutant: the dataset split is looked up before the provider
create_finetune_dataset_first(request) ==
    IF request.dataset_id \notin DatasetSplitIds
    THEN NotFound("Dataset split not found")
    ELSE IF request.provider \notin finetune_registry
    THEN BadRequest("Fine tune provider not found")
    ELSE IF ~Truthy(request.system_message_generator)
            /\ ~Truthy(request.custom_system_message)
    THEN BadRequest("System message generator or custom system message is required")
    ELSE system_message_from_request(request.custom_system_message,
                                     request.system_message_generator)

\* create_finetune up to the call of create_and_start: the raised
\* HTTPException, or the system message create_and_start is called with
create_finetune(request) ==
    IF request.provider \notin finetune_registry
    THEN BadRequest("Fine tune provider not found")
    ELSE IF request.dataset_id \notin DatasetSplitIds
    THEN NotFound("Dataset split not found")
    ELSE IF ~Truthy(request.system_message_generator)
            /\ ~Truthy(request.custom_system_message)
    THEN BadRequest("System message generator or custom system message is required")
    ELSE system_message_from_request(request.custom_system_message,
                                     request.system_message_generator)

\* a handler can be entered
CanServe ==
    /\ ft_pc \in {"idle", "returned"}
    /\ ft_ncalls < MaxCalls

\* get_finetunes, lines 68-69
GetFinetunesEnter(update_status) ==
    /\ CanServe
    /\ ft_pc' = "get_finetunes"
    /\ ft_request' = [ kind |-> "get_finetunes", update_status |-> update_status ]
    /\ ft_idx' = 0
    /\ status_calls' = [ i \in 1..Len(finetunes) |-> 0 ]
    /\ ft_before' = [ finetunes |-> finetunes,
                      create_and_start_calls |-> create_and_start_calls ]
    /\ ft_response' = NoResponse
    /\ ft_ncalls' = ft_ncalls + 1
    /\ UNCHANGED << finetunes, create_and_start_calls >>
    /\ UNCHANGED << handler_vars, store_vars, fireworks_vars, stream_vars,
                    jobs_vars >>

\* one iteration of the loop of lines 73-82, up to the await
GetFinetunesNext ==
    /\ ft_pc = "get_finetunes"
    /\ ft_request.update_status
    /\ ft_idx < Len(finetunes)
    /\ IF NeedsStatus(finetunes[ft_idx + 1])
       THEN /\ ft_pc' = "status"
            /\ status_calls' =
                   [ status_calls EXCEPT ![ft_idx + 1] = status_calls[ft_idx + 1] + 1 ]
            /\ UNCHANGED ft_idx
       ELSE /\ ft_idx' = ft_idx + 1
            /\ UNCHANGED << ft_pc, status_calls >>
    /\ UNCHANGED << finetunes, ft_request, create_and_start_calls, ft_before,
                    ft_response, ft_ncalls >>
    /\ UNCHANGED << handler_vars, store_vars, fireworks_vars, stream_vars,
                    jobs_vars >>

\* line 82: the adapter's status() returns; it may have updated the datamodel
AdapterStatus(status, updated) ==
    /\ ft_pc = "status"
    /\ ft_pc' = "get_finetunes"
    /\ ft_idx' = ft_idx + 1
    /\ finetunes' = IF updated
                    THEN [ finetunes EXCEPT ![ft_idx + 1].latest_status = status ]
                    ELSE finetunes
    /\ UNCHANGED << ft_request, status_calls, create_and_start_calls, ft_before,
                    ft_response, ft_ncalls >>
    /\ UNCHANGED << handler_vars, store_vars, fireworks_vars, stream_vars,
                    jobs_vars >>

\* line 84
GetFinetunesReturn ==
    /\ ft_pc = "get_finetunes"
    /\ ~ft_request.update_status \/ ft_idx = Len(finetunes)
    /\ ft_pc' = "returned"
    /\ ft_response' = [ status_code |-> 200, finetunes |-> finetunes ]
    /\ UNCHANGED << finetunes, ft_request, ft_idx, status_calls,
                    create_and_start_calls, ft_before, ft_ncalls >>
    /\ UNCHANGED << handler_vars, store_vars, fireworks_vars, stream_vars,
                    jobs_vars >>

\* create_finetune, lines 192-239; create_and_start returns the new
\* fine-tune or raises
CreateFinetune(request, started) ==
    /\ CanServe
    /\ ft_pc' = "returned"
    /\ ft_request' = request
    /\ ft_before' = [ finetunes |-> finetunes,
                      create_and_start_calls |-> create_and_start_calls ]
    /\ ft_ncalls' = ft_ncalls + 1
    /\ LET checked == create_finetune(request)
       IN IF checked.status_code # 200
          THEN /\ ft_response' = checked
               /\ UNCHANGED << finetunes, create_and_start_calls >>
          ELSE /\ create_and_start_calls' = create_and_start_calls + 1
               /\ IF started
                  THEN /\ finetunes' =
                              Append(finetunes,
                                     Finetune(Len(finetunes) + 1, "pending"))
                       /\ ft_response' = [ status_code |-> 200,
                                           id |-> Len(finetunes) + 1,
                                           system_message |-> checked.system_message ]
                  ELSE /\ ft_response' = [ status_code |-> 500 ]
                       /\ UNCHANGED finetunes
    /\ UNCHANGED << ft_idx, status_calls >>
    /\ UNCHANGED << handler_vars, store_vars, fireworks_vars, stream_vars,
                    jobs_vars >>

FinetuneInit ==
    /\ HandlerIdle
    /\ store = Empty
    /\ calls = Empty
    /\ finetunes \in StoredFinetunes
    /\ ft_pc = "idle"
    /\ ft_request = [ kind |-> "none" ]
    /\ ft_idx = 0
    /\ status_calls = [ i \in 1..Len(finetunes) |-> 0 ]
    /\ create_and_start_calls = 0
    /\ ft_before = [ finetunes |-> finetunes, create_and_start_calls |-> 0 ]
    /\ ft_response = NoResponse
    /\ ft_ncalls = 0
    /\ FireworksIdle
    /\ StreamIdle
    /\ JobsIdle

FinetuneNext ==
    \/ \E update_status \in BOOLEAN : GetFinetunesEnter(update_status)
    \/ GetFinetunesNext
    \/ \E status \in FineTuneStatusTypes, updated \in BOOLEAN :
           AdapterStatus(status, updated)
    \/ GetFinetunesReturn
    \/ \E request \in CreateFinetuneRequests, started \in BOOLEAN :
           CreateFinetune(request, started)

FinetuneSpec == FinetuneInit /\ [][FinetuneNext]_vars

(***************************************************************************)
(* Properties of the FinetuneService handlers                              *)
(***************************************************************************)
\* the current request is a finished call of get_finetunes
GotFinetunes ==
    /\ ft_request.kind = "get_finetunes"
    /\ ft_pc = "returned"

Created ==
    /\ ft_request.kind = "create_finetune"
    /\ ft_pc = "returned"

\* the call was refused with the status code, without a call of
\* create_and_start and without a new fine-tune
Refused(status_code) ==
    /\ ft_response.status_code = status_code
    /\ create_and_start_calls = ft_before.create_and_start_calls
    /\ finetunes = ft_before.finetunes

\* C22: create_finetune answers 400 when the provider is not in the
\* registry, else 404 when the dataset split does not exist, else 400 when
\* neither system_message_generator nor custom_system_message is given; in
\* each of these cases create_and_start is not called and no fine-tune is
\* created, so create_and_start is called only after all three passed.
C22_StartOnlyAfterValidation ==
    Created =>
        LET provider_found == ft_request.provider \in {"fireworks_ai", "together_ai"}
            dataset_found == ft_request.dataset_id = "split1"
            has_message ==
                \/ ft_request.system_message_generator \notin {None, ""}
                \/ ft_request.custom_system_message \notin {None, ""}
        IN /\ ~provider_found => Refused(400)
           /\ (provider_found /\ ~dataset_found) => Refused(404)
           /\ (provider_found /\ dataset_found /\ ~has_message) => Refused(400)
           /\ create_and_start_calls # ft_before.create_and_start_calls =>
                  /\ provider_found /\ dataset_found /\ has_message
                  /\ create_and_start_calls = ft_before.create_and_start_calls + 1

C22_Witness ==
    /\ Created
    /\ ft_request.provider = "invalid_provider"
    /\ ft_request.dataset_id = "invalid_split_id"
    /\ ft_request.system_message_generator = None
    /\ ft_request.custom_system_message = None
    /\ ft_response.status_code = 400
    /\ create_and_start_calls = 1

(***************************************************************************)
(* fetch_fireworks_finetune_models of finetune/v2/finetune_service.py      *)
(*                                                                         *)
(* The Fireworks API is not part of the gateway: the body of each response *)
(* is drawn from the bodies a server can send.  A JSON value that may be   *)
(* absent or of another type is a record [type, str]; a model's name is    *)
(* the sequence of the segments between its slashes, so that split("/")    *)
(* is the sequence itself and a concatenation is the sequence of its       *)
(* pieces.                                                                 *)
(***************************************************************************)
MaxPages == 2

Absent == [ type |-> "absent", str |-> "" ]
Str(string) == [ type |-> "str", str |-> string ]

\* the values a response can carry under "nextPageToken"
PageTokens ==
    { Absent, [ type |-> "null", str |-> "" ], [ type |-> "number", str |-> "" ],
      Str(""), Str("token1"), Str("token2") }

ModelDict(keys, tunable, name, displayName) ==
    [ keys |-> keys, tunable |-> tunable, name |-> name,
      displayName |-> displayName ]

AllKeys == {"name", "displayName", "tunable"}

Model1 == ModelDict(AllKeys, TRUE, << "accounts", "fireworks", "models", "model1" >>,
                    "Model One")
Model2 == ModelDict(AllKeys, TRUE, << "accounts", "fireworks", "models", "model2" >>,
                    "  ")
Model3 == ModelDict(AllKeys, FALSE, << "accounts", "fireworks", "models", "model3" >>,
                    "Model Three")
Model4 == ModelDict({"name", "displayName"}, FALSE, << "model4" >>, "Model Four")
Model5 == ModelDict({"name", "tunable"}, TRUE, << "model5" >>, "")
Model6 == ModelDict({"displayName", "tunable"}, TRUE, << >>, "Model Six")

\* the lists a response can carry under "models"
ModelLists ==
    { << >>, << Model1 >>, << Model3, Model2 >>, << Model4, Model1, Model5 >>,
      << Model6, Model2 >> }

\* the bodies of the responses: models_type is "absent" without the key
\* "models", "object" when its value is not a list
ResponseBodies ==
    [ models_type : {"list"}, models : ModelLists, nextPageToken : PageTokens ]
      \cup [ models_type : {"absent", "object"}, models : { << >> },
             nextPageToken : { Absent, Str("token1") } ]

\* the server has no page after this one
LastPage(json) == json.nextPageToken \notin { Str("token1"), Str("token2") }

\* str.strip() of the display names above
strip(string) == IF string \in {"", "  "} THEN "" ELSE string

\* mutant: every token that is present asks for a next page
HasNextPageWhenPresent(json) ==
    json.nextPageToken.type \notin {"absent", "null"}

\* lines 378-383: the response names a next page
HasNextPage(json) ==
    /\ json.nextPageToken.type \notin {"absent", "null"}
    /\ json.nextPageToken.type = "str"
    /\ json.nextPageToken.str # ""

\* lines 373: the response carries a list under "models"
ValidResponse(json) == json.models_type = "list"

\* lines 393-408: the provider model of a tunable model dict
FinetuneProviderModel(model) ==
    LET id == model.name
        display_name == model.displayName
        id_tail == id[Len(id)]
    IN [ name |-> IF strip(display_name) = ""
                  THEN << id_tail >>
                  ELSE << display_name, " (", id_tail, ")" >>,
         id |-> id ]

\* line 393
IsTunable(model) ==
    /\ "tunable" \in model.keys /\ model.tunable
    /\ "displayName" \in model.keys
    /\ "name" \in model.keys

RECURSIVE TuneableModels(_)
\* lines 391-410
TuneableModels(collected) ==
    IF collected = << >> THEN << >>
    ELSE LET rest == TuneableModels(Tail(collected))
         IN IF IsTunable(Head(collected))
            THEN << FinetuneProviderModel(Head(collected)) >> \o rest
            ELSE rest

\* lines 353-366
FetchEnter(api_key) ==
    /\ fw_pc = "idle"
    /\ IF api_key = ""
       THEN /\ fw_pc' = "returned"
            /\ tuneable_models' = [ raised |-> "", models |-> << >> ]
            /\ UNCHANGED params
       ELSE /\ fw_pc' = "get"
            /\ params' = [ pageSize |-> 200, pageToken |-> Absent ]
            /\ UNCHANGED tuneable_models
    /\ UNCHANGED << requests_sent, responses, models >>
    /\ UNCHANGED << handler_vars, store_vars, finetune_vars, stream_vars,
                    jobs_vars >>

\* one iteration of the loop of lines 370-389, and lines 391-410 behind it
FetchPage(json) ==
    /\ fw_pc = "get"
    /\ Len(requests_sent) < MaxPages
    /\ Len(requests_sent) = MaxPages - 1 => LastPage(json)
    /\ requests_sent' = Append(requests_sent, params)
    /\ responses' = Append(responses, json)
    /\ IF ~ValidResponse(json)
       THEN /\ fw_pc' = "returned"
            /\ tuneable_models' = [ raised |-> "ValueError", models |-> << >> ]
            /\ UNCHANGED << params, models >>
       ELSE /\ models' = models \o json.models
            /\ IF HasNextPage(json)
               THEN /\ params' = [ pageSize |-> 200,
                                   pageToken |-> json.nextPageToken ]
                    /\ UNCHANGED << fw_pc, tuneable_models >>
               ELSE /\ fw_pc' = "returned"
                    /\ tuneable_models' =
                           [ raised |-> "", models |-> TuneableModels(models') ]
                    /\ UNCHANGED params
    /\ UNCHANGED << handler_vars, store_vars, finetune_vars, stream_vars,
                    jobs_vars >>

FireworksInit ==
    /\ HandlerIdle
    /\ store = Empty
    /\ calls = Empty
    /\ ServicesIdle

FireworksNext ==
    \/ \E api_key \in {"", "test-api-key"} : FetchEnter(api_key)
    \/ \E json \in ResponseBodies : FetchPage(json)

FireworksSpec == FireworksInit /\ [][FireworksNext]_vars

(***************************************************************************)
(* Properties of fetch_fireworks_finetune_models                           *)
(***************************************************************************)
\* the response carries a non-empty string under "nextPageToken"
NamesNextPage(json) ==
    \E token \in {"token1", "token2"} : json.nextPageToken = Str(token)

RECURSIVE PagesInOrder(_)
\* the model dicts of the pages, page after page
PagesInOrder(pages) ==
    IF pages = << >> THEN << >>
    ELSE Head(pages).models \o PagesInOrder(Tail(pages))

RECURSIVE TunableIds(_)
\* the names of the tunable model dicts that have a name and a displayName
TunableIds(dicts) ==
    IF dicts = << >> THEN << >>
    ELSE LET model == Head(dicts)
         IN IF model.keys = {"name", "displayName", "tunable"} /\ model.tunable
            THEN << model.name >> \o TunableIds(Tail(dicts))
            ELSE TunableIds(Tail(dicts))

\* C23: with an API key the function asks for one page at a time: the first
\* request carries only pageSize, each later request carries the previous
\* response's nextPageToken as pageToken, and it stops at the first response
\* without a non-empty string nextPageToken; it returns exactly the tunable
\* models that have a name and a displayName, of all pages in page order; a
\* response without a list under "models" raises ValueError.
C23_PagesFollowTokens ==
    LET sent == Len(requests_sent)
    IN /\ Len(responses) = sent
       /\ sent >= 1 => requests_sent[1] = [ pageSize |-> 200, pageToken |-> Absent ]
       /\ \A k \in 2..sent :
              /\ NamesNextPage(responses[k - 1])
              /\ responses[k - 1].models_type = "list"
              /\ requests_sent[k] =
                     [ pageSize |-> 200,
                       pageToken |-> responses[k - 1].nextPageToken ]
       /\ (fw_pc = "get" /\ sent >= 1) =>
              /\ NamesNextPage(responses[sent])
              /\ responses[sent].models_type = "list"
       /\ (fw_pc = "returned" /\ sent >= 1) =>
              IF responses[sent].models_type # "list"
              THEN tuneable_models.raised = "ValueError"
              ELSE /\ ~NamesNextPage(responses[sent])
                   /\ tuneable_models.raised = ""
                   /\ [ i \in 1..Len(tuneable_models.models) |->
                            tuneable_models.models[i].id ]
                          = TunableIds(PagesInOrder(responses))

C23_Witness ==
    /\ fw_pc = "returned"
    /\ Len(requests_sent) = 2
    /\ requests_sent[2].pageToken = Str("token1")
    /\ responses[1].models = << Model3, Model2 >>
    /\ responses[2].models = << Model4, Model1, Model5 >>
    /\ responses[2].nextPageToken = Str("")
    /\ Len(tuneable_models.models) = 2
    /\ tuneable_models.models[1].name = << "model2" >>
    /\ tuneable_models.models[2].name = << "Model One", " (", "model1", ")" >>

(***************************************************************************)
(* EvalService.run_eval_runner_with_status of src/src/eval/eval_service.py *)
(*                                                                         *)
(* event_generator is an async generator over eval_runner.run(), which     *)
(* belongs to kiln_ai: the runner yields Progress objects until it         *)
(* finishes or raises.  The server pulls the events one at a time and      *)
(* closes the generator when the client goes away.  An event is the record *)
(* of what its text carries.                                               *)
(***************************************************************************)
MaxUpdates == 2

\* the Progress objects a runner can yield
ProgressUpdates == [ complete : 0..2, total : {2}, errors : 0..1 ]

\* how eval_runner.run() can end
RunnerOutcomes == {"finished", "raised"}

\* lines 98-103: "data: " and the JSON text of the dict
ProgressEvent(progress) ==
    [ data |-> "json",
      progress |-> progress.complete,
      total |-> progress.total,
      errors |-> progress.errors ]

\* line 106: "data: complete"
CompleteEvent ==
    [ data |-> "complete", progress |-> 0, total |-> 0, errors |-> 0 ]

\* mutant: the statement behind the loop also runs when the runner raised
LoopLeftOrRaised(outcome) == outcome \in {"finished", "raised"}

\* line 97: the async for is left for line 106 when the runner's iterator is
\* exhausted; an exception of the runner leaves event_generator
LoopLeft(outcome) == outcome = "finished"

\* lines 108-111: the StreamingResponse is returned and the server starts
\* to pull from event_generator
StreamOpen ==
    /\ stream_pc = "idle"
    /\ stream_pc' = "async for"
    /\ runner' = "running"
    /\ UNCHANGED << progress_updates, events >>
    /\ UNCHANGED << handler_vars, store_vars, finetune_vars, fireworks_vars,
                    jobs_vars >>

\* lines 97-103: the runner yields a Progress and the event is yielded
StreamProgress(progress) ==
    /\ stream_pc = "async for"
    /\ runner = "running"
    /\ Len(progress_updates) < MaxUpdates
    /\ progress_updates' = Append(progress_updates, progress)
    /\ events' = Append(events, ProgressEvent(progress))
    /\ UNCHANGED << runner, stream_pc >>
    /\ UNCHANGED << handler_vars, store_vars, finetune_vars, fireworks_vars,
                    jobs_vars >>

\* line 97: the runner ends while event_generator waits for its next update
RunnerEnds(outcome) ==
    /\ stream_pc = "async for"
    /\ runner = "running"
    /\ runner' = outcome
    /\ stream_pc' = IF LoopLeft(outcome) THEN "after loop" ELSE "closed"
    /\ UNCHANGED << progress_updates, events >>
    /\ UNCHANGED << handler_vars, store_vars, finetune_vars, fireworks_vars,
                    jobs_vars >>

\* line 106
StreamComplete ==
    /\ stream_pc = "after loop"
    /\ events' = Append(events, CompleteEvent)
    /\ stream_pc' = "closed"
    /\ UNCHANGED << runner, progress_updates >>
    /\ UNCHANGED << handler_vars, store_vars, finetune_vars, fireworks_vars,
                    jobs_vars >>

\* the client goes away and the server closes event_generator at the yield
\* of a progress event
ClientDisconnects ==
    /\ stream_pc = "async for"
    /\ events # << >>
    /\ stream_pc' = "disconnected"
    /\ UNCHANGED << runner, progress_updates, events >>
    /\ UNCHANGED << handler_vars, store_vars, finetune_vars, fireworks_vars,
                    jobs_vars >>

StreamInit ==
    /\ HandlerIdle
    /\ store = Empty
    /\ calls = Empty
    /\ ServicesIdle

StreamNext ==
    \/ StreamOpen
    \/ \E progress \in ProgressUpdates : StreamProgress(progress)
    \/ \E outcome \in RunnerOutcomes : RunnerEnds(outcome)
    \/ StreamComplete
    \/ ClientDisconnects

\* the server keeps pulling from event_generator while the client listens
StreamSpec == StreamInit /\ [][StreamNext]_vars /\ WF_vars(StreamComplete)

(***************************************************************************)
(* Properties of the event stream                                          *)
(***************************************************************************)
\* the stream carries a "complete" event
Completed ==
    \E i \in 1..Len(events) : events[i].data = "complete"

\* one progress event per progress update, in the runner's order, then at
\* most one complete event, the last one, only after the runner finished
C24_Events ==
    LET n == Len(progress_updates)
    IN /\ Len(events) \in {n, n + 1}
       /\ \A i \in 1..n :
              /\ events[i].data = "json"
              /\ events[i].progress = progress_updates[i].complete
              /\ events[i].total = progress_updates[i].total
              /\ events[i].errors = progress_updates[i].errors
       /\ Len(events) = n + 1 =>
              /\ events[n + 1].data = "complete"
              /\ runner = "finished"
              /\ stream_pc = "closed"

Services == {1, 2}

\* the ids uuid4 gives to the jobs, in the order of the job table
JobOrder == << "j1", "j2" >>
JobIds == Range(JobOrder)

\* what adapter.status() can answer, or that it raises; "running" stands
\* for every status that is neither completed nor failed
StatusAnswers == {"completed", "failed", "running", "raises"}

Job(status, error_message, provider_job_id) ==
    [ status |-> status, error_message |-> error_message,
      provider_job_id |-> provider_job_id ]

\* a task that does not exist
NoTask == [ pc |-> "none", pending_jobs |-> << >>, running_jobs |-> << >>,
            idx |-> 0 ]

NoService ==
    [ constructed |-> FALSE, jobs |-> Empty, adapters |-> {},
      background_task |-> NoTask, update_task |-> NoTask ]

\* the two kinds of task that check job statuses
Tasks == {"background_task", "update_task"}

\* lines 73-84
save_job(files, job_id, job) ==
    [ j \in DOMAIN files \cup {job_id} |-> IF j = job_id THEN job ELSE files[j] ]

\* the ids of the jobs of the table with the status, in the table's order
JobsWithStatus(jobs, status) ==
    SelectSeq(JobOrder, LAMBDA j : j \in DOMAIN jobs /\ jobs[j].status = status)

\* lines 48-71: the adapters restored while loading
restored_adapters(files) ==
    { j \in DOMAIN files :
          files[j].status = "running" /\ files[j].provider_job_id # None }

\* mutant: every job that is not final can be cancelled
cancel_job_unless_final(service, files, job_id) ==
    IF job_id \notin DOMAIN service.jobs
    THEN [ success |-> FALSE, service |-> service, files |-> files ]
    ELSE IF service.jobs[job_id].status \in {"completed", "failed"}
    THEN [ success |-> FALSE, service |-> service, files |-> files ]
    ELSE LET job == [ service.jobs[job_id] EXCEPT
                          !.status = "failed",
                          !.error_message = "Job cancelled by user" ]
         IN [ success |-> TRUE,
              service |-> [ service EXCEPT
                                !.jobs = [ service.jobs EXCEPT ![job_id] = job ],
                                !.adapters = service.adapters \ {job_id} ],
              files |-> save_job(files, job_id, job) ]

\* cancel_job, lines 345-364: the result, the service and the files after it
cancel_job(service, files, job_id) ==
    IF job_id \notin DOMAIN service.jobs
    THEN [ success |-> FALSE, service |-> service, files |-> files ]
    ELSE IF service.jobs[job_id].status # "running"
    THEN [ success |-> FALSE, service |-> service, files |-> files ]
    ELSE LET job == [ service.jobs[job_id] EXCEPT
                          !.status = "failed",
                          !.error_message = "Job cancelled by user" ]
         IN [ success |-> TRUE,
              service |-> [ service EXCEPT
                                !.jobs = [ service.jobs EXCEPT ![job_id] = job ],
                                !.adapters = service.adapters \ {job_id} ],
              files |-> save_job(files, job_id, job) ]

\* lines 273-274: the jobs the iteration is going to start
pending_jobs_of(service) == JobsWithStatus(service.jobs, "pending")

\* mutant: the job is not marked as running before the provider is called
start_unmarked(job) == job

\* _start_job, lines 186-188
start_running(job) == [ job EXCEPT !.status = "running" ]

\* _start_job, lines 218-224
start_failed(job) ==
    [ job EXCEPT !.status = "failed", !.error_message = "start error" ]

\* lines 309-337: the job after the answer of adapter.status()
status_update(job, answer) ==
    IF answer = "completed" THEN [ job EXCEPT !.status = "completed" ]
    ELSE IF answer = "failed"
    THEN [ job EXCEPT !.status = "failed", !.error_message = "provider message" ]
    ELSE job

\* get_finetune_service and __init__, lines 34-46
Construct(s) ==
    /\ ~services[s].constructed
    /\ services' =
           [ services EXCEPT ![s] =
                 [ constructed |-> TRUE,
                   jobs |-> job_files,
                   adapters |-> restored_adapters(job_files),
                   background_task |-> [ NoTask EXCEPT !.pc = "top" ],
                   update_task |-> NoTask ] ]
    /\ UNCHANGED << job_files, create_and_start_count >>
    /\ UNCHANGED << handler_vars, store_vars, finetune_vars, fireworks_vars,
                    stream_vars >>

\* create_job, lines 135-177
CreateJob(s, job_id) ==
    /\ services[s].constructed
    /\ job_id \in DOMAIN create_and_start_count
    /\ job_id \notin DOMAIN job_files
    /\ LET job == Job("pending", None, None)
       IN /\ services' = [ services EXCEPT
                               ![s].jobs = save_job(services[s].jobs, job_id, job) ]
          /\ job_files' = save_job(job_files, job_id, job)
    /\ UNCHANGED create_and_start_count
    /\ UNCHANGED << handler_vars, store_vars, finetune_vars, fireworks_vars,
                    stream_vars >>

\* cancel_job of routes.py, lines 144-154, and of the service
CancelJob(s, job_id) ==
    /\ services[s].constructed
    /\ LET result == cancel_job(services[s], job_files, job_id)
       IN /\ services' = [ services EXCEPT ![s] = result.service ]
          /\ job_files' = result.files
    /\ UNCHANGED create_and_start_count
    /\ UNCHANGED << handler_vars, store_vars, finetune_vars, fireworks_vars,
                    stream_vars >>

\* list_jobs with update_status, lines 248-258: the task that checks the
\* running jobs is created and takes its list
ListJobs(s) ==
    /\ services[s].constructed
    /\ services[s].update_task.pc = "none"
    /\ services' =
           [ services EXCEPT
                 ![s].update_task =
                     [ pc |-> "check", pending_jobs |-> << >>,
                       running_jobs |-> JobsWithStatus(services[s].jobs, "running"),
                       idx |-> 0 ] ]
    /\ UNCHANGED << job_files, create_and_start_count >>
    /\ UNCHANGED << handler_vars, store_vars, finetune_vars, fireworks_vars,
                    stream_vars >>

\* _process_jobs, lines 271-274: an iteration begins
LoopPending(s) ==
    /\ services[s].background_task.pc = "top"
    /\ services' =
           [ services EXCEPT
                 ![s].background_task =
                     [ pc |-> "start",
                       pending_jobs |-> pending_jobs_of(services[s]),
                       running_jobs |-> << >>,
                       idx |-> 0 ] ]
    /\ UNCHANGED << job_files, create_and_start_count >>
    /\ UNCHANGED << handler_vars, store_vars, finetune_vars, fireworks_vars,
                    stream_vars >>

\* _start_job, lines 179-206, up to the await of create_and_start, or the
\* whole of it when the dataset cannot be loaded (lines 218-224)
StartJob(s, loaded) ==
    LET task == services[s].background_task
        job_id == task.pending_jobs[task.idx + 1]
        job == services[s].jobs[job_id]
    IN /\ task.pc = "start"
       /\ task.idx < Len(task.pending_jobs)
       /\ IF loaded
          THEN LET running == start_running(job)
               IN /\ services' =
                         [ services EXCEPT
                               ![s].jobs[job_id] = running,
                               ![s].background_task.pc = "create_and_start" ]
                  /\ job_files' = save_job(job_files, job_id, running)
                  /\ create_and_start_count' =
                         [ create_and_start_count EXCEPT
                               ![job_id] = create_and_start_count[job_id] + 1 ]
          ELSE LET failed == start_failed(start_running(job))
               IN /\ services' =
                         [ services EXCEPT
                               ![s].jobs[job_id] = failed,
                               ![s].background_task.idx = task.idx + 1 ]
                  /\ job_files' = save_job(job_files, job_id, failed)
                  /\ UNCHANGED create_and_start_count
       /\ UNCHANGED << handler_vars, store_vars, finetune_vars, fireworks_vars,
                       stream_vars >>

\* _start_job, lines 206-224: create_and_start returns or raises
StartReturns(s, started) ==
    LET task == services[s].background_task
        job_id == task.pending_jobs[task.idx + 1]
        job == services[s].jobs[job_id]
        after == IF started
                 THEN [ job EXCEPT !.provider_job_id = "provider job" ]
                 ELSE start_failed(job)
    IN /\ task.pc = "create_and_start"
       /\ services' =
              [ services EXCEPT
                    ![s].jobs[job_id] = after,
                    ![s].adapters = IF started
                                    THEN services[s].adapters \cup {job_id}
                                    ELSE services[s].adapters,
                    ![s].background_task.pc = "start",
                    ![s].background_task.idx = task.idx + 1 ]
       /\ job_files' = save_job(job_files, job_id, after)
       /\ UNCHANGED create_and_start_count
       /\ UNCHANGED << handler_vars, store_vars, finetune_vars, fireworks_vars,
                       stream_vars >>

\* _process_jobs, lines 279-281: the pending jobs are through
LoopRunning(s) ==
    LET task == services[s].background_task
    IN /\ task.pc = "start"
       /\ task.idx = Len(task.pending_jobs)
       /\ services' =
              [ services EXCEPT
                    ![s].background_task.pc = "check",
                    ![s].background_task.running_jobs =
                        JobsWithStatus(services[s].jobs, "running"),
                    ![s].background_task.idx = 0 ]
       /\ UNCHANGED << job_files, create_and_start_count >>
       /\ UNCHANGED << handler_vars, store_vars, finetune_vars, fireworks_vars,
                       stream_vars >>

\* _check_job_status, lines 293-307, up to the await of adapter.status();
\* a missing adapter is restored
CheckJob(s, t) ==
    LET task == services[s][t]
        job_id == task.running_jobs[task.idx + 1]
    IN /\ task.pc = "check"
       /\ task.idx < Len(task.running_jobs)
       /\ services' =
              [ services EXCEPT
                    ![s].adapters = services[s].adapters \cup {job_id},
                    ![s][t].pc = "status" ]
       /\ UNCHANGED << job_files, create_and_start_count >>
       /\ UNCHANGED << handler_vars, store_vars, finetune_vars, fireworks_vars,
                       stream_vars >>

\* _check_job_status, lines 307-343: adapter.status() answers or raises
StatusReturns(s, t, answer) ==
    LET task == services[s][t]
        job_id == task.running_jobs[task.idx + 1]
        job == status_update(services[s].jobs[job_id], answer)
    IN /\ task.pc = "status"
       /\ services' =
              [ services EXCEPT
                    ![s].jobs[job_id] = job,
                    ![s][t].pc = "check",
                    ![s][t].idx = task.idx + 1 ]
       /\ job_files' = IF answer = "raises" THEN job_files
                       ELSE save_job(job_files, job_id, job)
       /\ UNCHANGED create_and_start_count
       /\ UNCHANGED << handler_vars, store_vars, finetune_vars, fireworks_vars,
                       stream_vars >>

\* _process_jobs, lines 282-291: the iteration ends and the task sleeps
LoopSleep(s) ==
    LET task == services[s].background_task
    IN /\ task.pc = "check"
       /\ task.idx = Len(task.running_jobs)
       /\ services' = [ services EXCEPT ![s].background_task.pc = "sleep" ]
       /\ UNCHANGED << job_files, create_and_start_count >>
       /\ UNCHANGED << handler_vars, store_vars, finetune_vars, fireworks_vars,
                       stream_vars >>

\* line 291: the sleep is over
LoopWake(s) ==
    /\ services[s].background_task.pc = "sleep"
    /\ services' = [ services EXCEPT ![s].background_task.pc = "top" ]
    /\ UNCHANGED << job_files, create_and_start_count >>
    /\ UNCHANGED << handler_vars, store_vars, finetune_vars, fireworks_vars,
                    stream_vars >>

\* _update_running_jobs_status, lines 260-261: the list is through
UpdateDone(s) ==
    LET task == services[s].update_task
    IN /\ task.pc = "check"
       /\ task.idx = Len(task.running_jobs)
       /\ services' = [ services EXCEPT ![s].update_task = NoTask ]
       /\ UNCHANGED << job_files, create_and_start_count >>
       /\ UNCHANGED << handler_vars, store_vars, finetune_vars, fireworks_vars,
                       stream_vars >>

\* what the background task of the service does
BackgroundStep(s) ==
    \/ LoopPending(s)
    \/ \E loaded \in BOOLEAN : StartJob(s, loaded)
    \/ \E started \in BOOLEAN : StartReturns(s, started)
    \/ LoopRunning(s)
    \/ CheckJob(s, "background_task")
    \/ \E answer \in StatusAnswers : StatusReturns(s, "background_task", answer)
    \/ LoopSleep(s)
    \/ LoopWake(s)

\* jobs_dir is empty, the services can be constructed and uuid4 can give the
\* job ids
JobsStart(service_ids, job_ids) ==
    /\ HandlerIdle
    /\ store = Empty
    /\ calls = Empty
    /\ FinetuneIdle
    /\ FireworksIdle
    /\ StreamIdle
    /\ job_files = Empty
    /\ services = [ s \in service_ids |-> NoService ]
    /\ create_and_start_count = [ j \in job_ids |-> 0 ]

\* one service that lives on, as many jobs as JobOrder names
JobsInit == JobsStart({1}, JobIds)

\* a service for every request, one job
RequestsInit == JobsStart(Services, {"j1"})

JobsNext ==
    \/ \E s \in DOMAIN services : Construct(s)
    \/ \E s \in DOMAIN services, job_id \in JobIds : CreateJob(s, job_id)
    \/ \E s \in DOMAIN services, job_id \in JobIds \cup {"j9"} :
           CancelJob(s, job_id)
    \/ \E s \in DOMAIN services : ListJobs(s)
    \/ \E s \in DOMAIN services : LoopPending(s)
    \/ \E s \in DOMAIN services, loaded \in BOOLEAN : StartJob(s, loaded)
    \/ \E s \in DOMAIN services, started \in BOOLEAN : StartReturns(s, started)
    \/ \E s \in DOMAIN services : LoopRunning(s)
    \/ \E s \in DOMAIN services, t \in Tasks : CheckJob(s, t)
    \/ \E s \in DOMAIN services, t \in Tasks, answer \in StatusAnswers :
           StatusReturns(s, t, answer)
    \/ \E s \in DOMAIN services : LoopSleep(s)
    \/ \E s \in DOMAIN services : LoopWake(s)
    \/ \E s \in DOMAIN services : UpdateDone(s)

\* the event loop runs every task that can run, the provider answers every
\* call and every sleep ends
JobsSpec ==
    /\ JobsInit
    /\ [][JobsNext]_vars
    /\ \A s \in Services : WF_vars(s \in DOMAIN services /\ BackgroundStep(s))

(***************************************************************************)
(* Properties of the fine-tune jobs                                        *)
(***************************************************************************)
\* the job of the service's table
JobOf(s, job_id) == services[s].jobs[job_id]

\* the jobs that were pending when the iteration began and that the
\* iteration has passed are not pending, and a failed one has its message;
\* at its end that holds for all of them; the task never ends
C25_Started ==
    \A s \in DOMAIN services :
        LET task == services[s].background_task
            passed == IF task.pc \in {"start", "create_and_start"}
                      THEN task.idx
                      ELSE Len(task.pending_jobs)
        IN /\ services[s].constructed => task.pc # "none"
           /\ \A i \in 1..passed :
                  LET job == JobOf(s, task.pending_jobs[i])
                  IN /\ job.status \in {"running", "failed", "completed"}
                     /\ job.status = "failed" => job.error_message # None

\* when create_and_start is called, the job is running in the table and in
\* its file
C25_PersistedBeforeCall ==
    \A s \in DOMAIN services, j \in DOMAIN create_and_start_count :
        ( /\ create_and_start_count'[j] # create_and_start_count[j]
          /\ services'[s].background_task.pc = "create_and_start"
          /\ services[s].background_task.pc = "start" )
            => /\ services'[s].jobs[j].status = "running"
               /\ job_files'[j] = services'[s].jobs[j]

\* a pending job of a service's table leaves pending
C25_LeavesPending ==
    \A s \in Services, j \in JobIds :
        ( /\ s \in DOMAIN services
          /\ j \in DOMAIN services[s].jobs
          /\ JobOf(s, j).status = "pending" )
            ~> ( /\ s \in DOMAIN services
                 /\ j \in DOMAIN services[s].jobs
                 /\ JobOf(s, j).status # "pending" )

C26_CancelOnlyRunning ==
    \A s \in DOMAIN services, job_id \in JobIds \cup {"j9"} :
        services[s].constructed =>
            LET result == cancel_job(services[s], job_files, job_id)
                known == job_id \in DOMAIN services[s].jobs
            IN /\ result.success <=> (known /\ JobOf(s, job_id).status = "running")
               /\ result.success =>
                      /\ result.service.jobs[job_id].status = "failed"
                      /\ result.service.jobs[job_id].error_message
                             = "Job cancelled by user"
                      /\ result.files[job_id] = result.service.jobs[job_id]
                      /\ job_id \notin result.service.adapters
               /\ ~result.success =>
                      /\ result.service = services[s]
                      /\ result.files = job_files

C26_Witness ==
    /\ "j1" \in DOMAIN services[1].jobs
    /\ JobOf(1, "j1") = Job("failed", "Job cancelled by user", "provider job")
    /\ job_files["j1"] = JobOf(1, "j1")
    /\ "j1" \notin services[1].adapters
    /\ "j2" \in DOMAIN services[1].jobs
    /\ JobOf(1, "j2").status = "pending"

\* C27: once a job is COMPLETED or FAILED, no later step changes its status.
C27_FinalStatusStays ==
    [][ \A s \in DOMAIN services :
            \A j \in DOMAIN services[s].jobs :
                JobOf(s, j).status \in {"completed", "failed"} =>
                    services'[s].jobs[j].status = JobOf(s, j).status ]_vars

\* C28: for every job, create_and_start is called at most once.
C28_StartedAtMostOnce ==
    \A j \in DOMAIN create_and_start_count : create_and_start_count[j] <= 1

\* the requests that create, cancel and read jobs, each with its own service
RequestsNext ==
    \/ \E s \in DOMAIN services : Construct(s)
    \/ \E s \in DOMAIN services, job_id \in JobIds : CreateJob(s, job_id)
    \/ \E s \in DOMAIN services, job_id \in JobIds \cup {"j9"} :
           CancelJob(s, job_id)
    \/ \E s \in DOMAIN services : LoopPending(s)
    \/ \E s \in DOMAIN services, loaded \in BOOLEAN : StartJob(s, loaded)
    \/ \E s \in DOMAIN services, started \in BOOLEAN : StartReturns(s, started)
    \/ \E s \in DOMAIN services : LoopRunning(s)
    \/ \E s \in DOMAIN services : CheckJob(s, "background_task")
    \/ \E s \in DOMAIN services, answer \in StatusAnswers :
           StatusReturns(s, "background_task", answer)
    \/ \E s \in DOMAIN services : LoopSleep(s)
    \/ \E s \in DOMAIN services : LoopWake(s)

RequestsSpec ==
    /\ RequestsInit
    /\ [][RequestsNext]_vars
    /\ \A s \in Services : WF_vars(s \in DOMAIN services /\ BackgroundStep(s))

====
